---- MODULE Spec2Model ----
(***************************************************************************)
(* Model of the message store, the summary-task queue and the two periodic *)
(* jobs of app.py (process_new_messages, process_summary_tasks), together  *)
(* with the pure helpers they call (summarize_messages,                    *)
(* categorize_message).                                                    *)
(*                                                                         *)
(* Text is a sequence of one-character strings, so that strip(), lower(),  *)
(* substring tests and concatenation are computed as the code computes     *)
(* them.  NULL columns and absent JSON members are explicit values.        *)
(***************************************************************************)
EXTENDS Integers, Sequences, FiniteSets, TLC

VARIABLES
    chat,       \* table Chat: sequence of rows in insertion (created_at) order
    tasks,      \* table summary_tasks, committed rows: id -> row
    nextTask,   \* the SERIAL of summary_tasks.id
    tick,       \* per job worker: position and transaction of process_summary_tasks
    legacy,     \* number of Chat rows that were stored before the service started
    lastClass,  \* observation of the last process_new_messages tick
    fnArgs,     \* pure-function harness: the call's inputs
    fnOut,      \* pure-function harness: the call's result
    followups,  \* table followup_tasks: sequence of rows in insertion order
    contacts,   \* table contacts: sequence of rows in id order
    pool,       \* app.pool is a connection pool (TRUE) or None (FALSE)
    http,       \* status code of the last HTTP response (0: none yet)
    body,       \* rows in the body of the last response of a reading route
    req,        \* the last HTTP request a route was entered with
    searchVector, \* whether column Chat.search_vector exists
    lastSql,    \* the query search_messages last executed
    prompt,     \* server.py: InMemoryStore._prompt
    responses,  \* server.py: InMemoryStore._responses
    arrived,    \* the responses added since the history was last cleared, in order
    lock,       \* server.py: InMemoryStore._lock, "free" or the thread holding it
    callers,    \* per thread inside add_response: its position and its response
    waiter      \* prompt_sender.py: position and locals of wait_for_response

\* what the HTTP routes of app.py add to the state
apiVars == <<followups, contacts, pool, http, body, req, searchVector, lastSql>>

\* the state of server.py
hubRun == <<lock, callers, waiter>>

hubVars == <<prompt, responses, arrived, hubRun>>

vars == <<chat, tasks, nextTask, tick, legacy, lastClass, fnArgs, fnOut, apiVars, hubVars>>

\* ------------------------------------------------------------------ bounds

MaxLen == 3         \* longest message list handed to summarize_messages
MaxTasks == 2       \* summary_tasks rows ever created
MaxMsgs == 2        \* Chat rows ever created through create_message

\* ------------------------------------------------------------------ text

Range(s) == {s[i] : i \in DOMAIN s}

Whitespace == {" ", "\t", "\n", "\r"}

\* str.strip(): drop leading and trailing whitespace
RECURSIVE LStrip(_)
LStrip(s) ==
    IF s # <<>> /\ Head(s) \in Whitespace THEN LStrip(Tail(s)) ELSE s

RECURSIVE RStrip(_)
RStrip(s) ==
    IF s # <<>> /\ s[Len(s)] \in Whitespace
    THEN RStrip(SubSeq(s, 1, Len(s) - 1))
    ELSE s

Strip(s) == RStrip(LStrip(s))

UpperChars == <<"A","B","C","D","E","F","G","H","I","J","K","L","M",
                "N","O","P","Q","R","S","T","U","V","W","X","Y","Z">>
LowerChars == <<"a","b","c","d","e","f","g","h","i","j","k","l","m",
                "n","o","p","q","r","s","t","u","v","w","x","y","z">>

LowerChar(c) ==
    IF \E i \in DOMAIN UpperChars : UpperChars[i] = c
    THEN LowerChars[CHOOSE i \in DOMAIN UpperChars : UpperChars[i] = c]
    ELSE c

\* str.lower()
Lower(s) == [i \in DOMAIN s |-> LowerChar(s[i])]

\* "sub in s"
Contains(sub, s) ==
    \E i \in 0..(Len(s) - Len(sub)) : SubSeq(s, i + 1, i + Len(sub)) = sub

\* any(k in s for k in keys)
ContainsAny(keys, s) == \E k \in keys : Contains(k, s)

\* ------------------------------------------------------------ sample text

TxtEmpty == <<>>
TxtHello == <<"H","e","l","l","o">>
TxtBye == <<"B","y","e">>
TxtHowAreYou == <<"H","o","w"," ","a","r","e"," ","y","o","u","?">>
TxtPleaseFix == <<"P","l","e","a","s","e"," ","f","i","x">>
TxtLoveIt == <<"I"," ","l","o","v","e"," ","i","t">>
TxtTerrible == <<"T","h","i","s"," ","i","s"," ","t","e","r","r","i","b","l","e">>
TxtOk == <<"O","k">>
TxtOkPadded == <<" ","O","k","\n">>
TxtBlank == <<" ">>
TxtBrief == <<"B","r","i","e","f">>

\* ------------------------------------------------------------ JSON values

JAbsent == [t |-> "absent", s |-> <<>>]     \* member not in the object
JNull == [t |-> "null", s |-> <<>>]         \* member present, null
JStr(s) == [t |-> "str", s |-> s]           \* member present, a string

\* Python truthiness of dict.get(member)
Truthy(v) == v.t = "str" /\ v.s # <<>>

\* a or b or c
FirstTruthy(a, b, c) == IF Truthy(a) THEN a ELSE IF Truthy(b) THEN b ELSE c

\* JSON string members that the code only compares or passes on (labels, embedded
\* JSON text) are TLA+ strings; "" is the empty string
TAbsent == [t |-> "absent", s |-> ""]
TNull == [t |-> "null", s |-> ""]
TStr(s) == [t |-> "str", s |-> s]

TokTruthy(v) == v.t = "str" /\ v.s # ""

TokFirstTruthy(a, b) == IF TokTruthy(a) THEN a ELSE b

\* ------------------------------------------------- prompt_sender.myGPTAPI

\* The HTTP exchange of generate_test_response, as the environment decides it:
\*   kind "raise"   the POST raised, timed out, or answered non-2xx
\*   kind "badjson" the body is not JSON
\*   kind "nondict" the body is JSON but not an object
\*   kind "dict"    the body is an object with these members
SumReply(kind, response, summary, answer) ==
    [kind |-> kind, response |-> response, summary |-> summary, answer |-> answer]

\* generate_test_response: returns the decoded body; raises on a request failure,
\* and also when logging len(result.get('response', '')) fails
GenerateTestResponse(reply) ==
    IF reply.kind # "dict" THEN [raised |-> TRUE, result |-> reply]
    ELSE IF reply.response.t = "null" THEN [raised |-> TRUE, result |-> reply]
    ELSE [raised |-> FALSE, result |-> reply]

\* ------------------------------------------------------ summarize_messages

Ellipsis == <<" ", ".", ".", ".", " ">>

\* (variant: the fallback keeps only the first message)
SummaryFallbackFirstOnly(messages) == messages[1]

\* the value returned after the try block
SummaryFallback(messages) ==
    IF Len(messages) = 1 THEN messages[1]
    ELSE messages[1] \o Ellipsis \o messages[Len(messages)]

\* (variant: the LLM's text is returned without strip())
summarize_messages_unstripped(messages, reply) ==
    IF messages = <<>> THEN [value |-> <<>>, called |-> FALSE, source |-> "empty"]
    ELSE LET r == GenerateTestResponse(reply)
             summary == FirstTruthy(r.result.response, r.result.summary,
                                    r.result.answer)
         IN IF ~r.raised /\ Truthy(summary)
            THEN [value |-> summary.s, called |-> TRUE, source |-> "llm"]
            ELSE [value |-> SummaryFallback(messages), called |-> TRUE,
                  source |-> "fallback"]

\* summarize_messages(messages) against an LLM that behaves as `reply`:
\*   value   the returned string
\*   called  whether generate_test_response was called
\*   source  which return statement produced the value
summarize_messages(messages, reply) ==
    IF messages = <<>> THEN [value |-> <<>>, called |-> FALSE, source |-> "empty"]
    ELSE LET r == GenerateTestResponse(reply)
             summary == FirstTruthy(r.result.response, r.result.summary,
                                    r.result.answer)
         IN IF ~r.raised /\ Truthy(summary)
            THEN [value |-> Strip(summary.s), called |-> TRUE, source |-> "llm"]
            ELSE [value |-> SummaryFallback(messages), called |-> TRUE,
                  source |-> "fallback"]

\* ------------------------------------------------------ categorize_message

\* json.loads of the embedded text, for the texts the model's LLM can send:
\*   kind "bad" raises, "nondict" has no .get, "dict" has these members
JsonFull == "{\"intent\": \"task\", \"sentiment\": \"positive\"}"
JsonNoSentiment == "{\"intent\": \"question\"}"
JsonOdd == "{\"intent\": \"spam\", \"sentiment\": \"meh\"}"
JsonList == "[\"task\", \"positive\"]"
JsonBroken == "intent: task"

JsonLoads(text) ==
    CASE text = JsonFull ->
            [kind |-> "dict", intent |-> TStr("task"), sentiment |-> TStr("positive")]
      [] text = JsonNoSentiment ->
            [kind |-> "dict", intent |-> TStr("question"), sentiment |-> TAbsent]
      [] text = JsonOdd ->
            [kind |-> "dict", intent |-> TStr("spam"), sentiment |-> TStr("meh")]
      [] text = JsonList ->
            [kind |-> "nondict", intent |-> TAbsent, sentiment |-> TAbsent]
      [] OTHER ->
            [kind |-> "bad", intent |-> TAbsent, sentiment |-> TAbsent]

\* The HTTP exchange of requests.post in categorize_message:
\*   kind "raise" (exception or timeout), "status" (non-2xx), "badjson",
\*   "nondict" (JSON, not an object), "dict" (an object with these members)
CatReply(kind, intent, sentiment, response, answer) ==
    [kind |-> kind, intent |-> intent, sentiment |-> sentiment,
     response |-> response, answer |-> answer]

IntentKeywords ==
    { <<"p","l","e","a","s","e">>, <<"c","a","n"," ","y","o","u">>,
      <<"c","o","u","l","d"," ","y","o","u">>, <<"t","o","d","o">>,
      <<"k","i","n","d","l","y">>, <<"f","o","l","l","o","w"," ","u","p">> }

positive_words ==
    { <<"g","o","o","d">>, <<"g","r","e","a","t">>, <<"l","o","v","e">>,
      <<"l","i","k","e">>, <<"e","x","c","e","l","l","e","n","t">>,
      <<"h","a","p","p","y">>, <<"a","w","e","s","o","m","e">>,
      <<"f","a","n","t","a","s","t","i","c">> }

negative_words ==
    { <<"b","a","d">>, <<"t","e","r","r","i","b","l","e">>, <<"h","a","t","e">>,
      <<"d","i","s","l","i","k","e">>, <<"a","w","f","u","l">>, <<"s","a","d">>,
      <<"a","n","g","r","y">> }

\* (variant: the keywords are looked up in the text as written, not lower-cased)
HeuristicCaseSensitive(text) ==
    LET intent == IF Contains(<<"?">>, text) THEN "question"
                  ELSE IF ContainsAny(IntentKeywords, text) THEN "task"
                  ELSE "statement"
        sentiment == IF ContainsAny(positive_words, text) THEN "positive"
                     ELSE IF ContainsAny(negative_words, text) THEN "negative"
                     ELSE "neutral"
    IN [intent |-> intent, sentiment |-> sentiment]

\* the local heuristic, lines after the remote attempt
Heuristic(text) ==
    LET lower == Lower(text)
        intent == IF Contains(<<"?">>, text) THEN "question"
                  ELSE IF ContainsAny(IntentKeywords, lower) THEN "task"
                  ELSE "statement"
        sentiment == IF ContainsAny(positive_words, lower) THEN "positive"
                     ELSE IF ContainsAny(negative_words, lower) THEN "negative"
                     ELSE "neutral"
    IN [intent |-> intent, sentiment |-> sentiment]

\* the body of the try block: the labels it returns (found), or the exception it
\* ends with (exc), or neither (it falls through to the heuristic)
RemoteLabels(reply) ==
    LET none == [found |-> FALSE, intent |-> TAbsent, sentiment |-> TAbsent,
                 exc |-> "none"]
        got(i, s) == IF TokTruthy(i) /\ TokTruthy(s)
                     THEN [none EXCEPT !.found = TRUE, !.intent = i, !.sentiment = s]
                     ELSE none
    IN CASE reply.kind = "raise" -> [none EXCEPT !.exc = "RequestException"]
         [] reply.kind = "status" -> [none EXCEPT !.exc = "HTTPError"]
         [] reply.kind = "badjson" -> [none EXCEPT !.exc = "ValueError"]
         [] reply.kind = "nondict" -> [none EXCEPT !.exc = "AttributeError"]
         [] OTHER ->
            IF reply.intent.t # "absent"
            THEN got(reply.intent, reply.sentiment)
            ELSE LET resp_text == TokFirstTruthy(reply.response, reply.answer)
                 IN IF ~TokTruthy(resp_text) THEN none
                    ELSE LET parsed == JsonLoads(resp_text.s)
                         IN \* inner try: json.loads or parsed.get raising is passed
                            IF parsed.kind = "dict"
                            THEN got(parsed.intent, parsed.sentiment)
                            ELSE none

\* (variant: "except requests.RequestException")
CaughtByExceptRequestOnly(exc) == exc \in {"RequestException", "HTTPError"}

\* "except Exception": every exception class the try block can end with
CaughtByExcept(exc) ==
    exc \in {"RequestException", "HTTPError", "ValueError", "AttributeError"}

\* categorize_message(text) with MYGPT_API_URL / MYGPT_API_KEY set or not and an
\* LLM that behaves as `reply`
categorize_message(text, url, key, reply) ==
    LET remote == IF url /\ key THEN RemoteLabels(reply)
                  ELSE [found |-> FALSE, intent |-> TAbsent,
                        sentiment |-> TAbsent, exc |-> "none"]
        local == Heuristic(text)
    IN IF remote.exc # "none" /\ ~CaughtByExcept(remote.exc)
       THEN [intent |-> "", sentiment |-> "", called |-> TRUE, raised |-> TRUE]
       ELSE IF remote.found
       THEN [intent |-> remote.intent.s, sentiment |-> remote.sentiment.s,
             called |-> TRUE, raised |-> FALSE]
       ELSE [intent |-> local.intent, sentiment |-> local.sentiment,
             called |-> url /\ key, raised |-> FALSE]

\* ---------------------------------------------------- pure-function harness

NoResult == [op |-> "none"]

\* no run of process_new_messages yet
NoClass == [sel |-> {}, ok |-> TRUE, len |-> 0]

\* no prompt stored (None)
NoPrompt == [t |-> "null", s |-> ""]

\* no request yet
NoReq == [route |-> "none"]

\* the stores and the pool once startup has succeeded, before any request
InitApi ==
    /\ followups = <<>> /\ contacts = <<>> /\ pool = TRUE /\ http = 0 /\ body = <<>>
    /\ req = NoReq /\ searchVector = TRUE /\ lastSql = "none"

\* no call of wait_for_response
NoWaiter == [pc |-> "none"]

InitHub ==
    /\ prompt = NoPrompt /\ responses = <<>> /\ arrived = <<>>
    /\ lock = "free" /\ callers = <<>> /\ waiter = NoWaiter

Texts == {TxtEmpty, TxtHello, TxtBye, TxtHowAreYou}

MessageLists == UNION {[1..n -> Texts] : n \in 0..MaxLen}

SumMembers == {JAbsent, JNull, JStr(TxtEmpty), JStr(TxtBlank), JStr(TxtOkPadded)}

SumReplies ==
    {SumReply("raise", JAbsent, JAbsent, JAbsent),
     SumReply("badjson", JAbsent, JAbsent, JAbsent),
     SumReply("nondict", JAbsent, JAbsent, JAbsent)}
    \cup {SumReply("dict", r, s, a) : r \in SumMembers, s \in SumMembers,
                                       a \in {JAbsent, JStr(TxtBrief)}}

CatTexts == {TxtEmpty, TxtHowAreYou, TxtPleaseFix, TxtLoveIt, TxtTerrible, TxtBye}

CatLabels == {TAbsent, TNull, TStr(""), TStr("task"), TStr("spam")}

CatEmbedded ==
    {TAbsent, TStr(""), TStr(JsonFull), TStr(JsonNoSentiment), TStr(JsonOdd),
     TStr(JsonList), TStr(JsonBroken)}

CatReplies ==
    {CatReply(k, TAbsent, TAbsent, TAbsent, TAbsent) :
        k \in {"raise", "status", "badjson", "nondict"}}
    \cup {CatReply("dict", i, s, TAbsent, TAbsent) : i \in CatLabels, s \in CatLabels}
    \cup {CatReply("dict", TAbsent, s, r, a) :
            s \in {TAbsent, TStr("neutral")}, r \in CatEmbedded,
            a \in {TAbsent, TStr(JsonFull), TStr(JsonBroken)}}

FnInputs ==
    {[op |-> "summarize", messages |-> m, reply |-> r] :
        m \in MessageLists, r \in SumReplies}
    \cup {[op |-> "categorize", text |-> t, url |-> u, key |-> k, reply |-> r] :
            t \in CatTexts, u \in BOOLEAN, k \in BOOLEAN, r \in CatReplies}

ApplySummarize ==
    /\ fnArgs.op = "summarize" /\ fnOut = NoResult
    /\ fnOut' = [op |-> "summarize"] @@ summarize_messages(fnArgs.messages, fnArgs.reply)
    /\ UNCHANGED <<chat, tasks, nextTask, tick, legacy, lastClass, fnArgs, apiVars, hubVars>>

ApplyCategorize ==
    /\ fnArgs.op = "categorize" /\ fnOut = NoResult
    /\ fnOut' = [op |-> "categorize"]
                @@ categorize_message(fnArgs.text, fnArgs.url, fnArgs.key, fnArgs.reply)
    /\ UNCHANGED <<chat, tasks, nextTask, tick, legacy, lastClass, fnArgs, apiVars, hubVars>>

InitFn ==
    /\ InitApi /\ InitHub
    /\ chat = <<>> /\ tasks = <<>> /\ nextTask = 1
    /\ tick = <<>> /\ legacy = 0 /\ lastClass = NoClass
    /\ fnArgs \in FnInputs
    /\ fnOut = NoResult

NextFn == ApplySummarize \/ ApplyCategorize

SpecFn == InitFn /\ [][NextFn]_vars

\* ------------------------------------------------------------ the database

Null == JNull                       \* a NULL text column
Convs == {"c1"}                     \* conversation ids clients name
ChatTexts == {TxtEmpty, TxtHello, TxtBye}
Workers == {"w1", "w2"}             \* job runs that may be in progress at once

\* a row of Chat as INSERT INTO Chat creates it: the classification columns NULL
ChatRow(id, cid, text) ==
    [id |-> id, conversation_id |-> cid, message |-> text,
     intent |-> TNull, sentiment |-> TNull, category |-> TNull]

\* (variant: the row is created already summarized)
TaskRowCompleted(cid) == [conversation_id |-> cid, status |-> "completed", summary |-> Null]

\* a row of summary_tasks as INSERT INTO summary_tasks (conversation_id) creates it
TaskRow(cid) == [conversation_id |-> cid, status |-> "pending", summary |-> Null]

\* f with x mapped to v (x added to the domain when new)
Put(f, x, v) == [y \in DOMAIN f \cup {x} |-> IF y = x THEN v ELSE f[y]]

\* f without x
Drop(f, x) == [y \in DOMAIN f \ {x} |-> f[y]]

\* the orders in which a query without ORDER BY can return the rows of S
Orders(S) ==
    {q \in [1..Cardinality(S) -> S] : \A i, j \in DOMAIN q : q[i] = q[j] => i = j}

\* SELECT message FROM Chat WHERE conversation_id = cid ORDER BY created_at ASC,
\* then [r[0] for r in rows if r and r[0]]
RECURSIVE ConversationTexts(_, _)
ConversationTexts(rows, cid) ==
    IF rows = <<>> THEN <<>>
    ELSE LET r == Head(rows)
             rest == ConversationTexts(Tail(rows), cid)
         IN IF r.conversation_id = TStr(cid) /\ r.message # <<>>
            THEN <<r.message>> \o rest
            ELSE rest

\* ---------------------------------------------------- detect_followup_tasks

Separators == {"\n", ".", "!", "?"}

\* re.split(r"[\n\.!?]+", text): the pieces between runs of separators, an empty
\* piece included where the text starts or ends with a separator
RECURSIVE SplitSentences(_)
SplitSentences(text) ==
    IF \A i \in DOMAIN text : text[i] \notin Separators THEN <<text>>
    ELSE LET k == CHOOSE i \in DOMAIN text :
                     /\ text[i] \in Separators
                     /\ \A j \in 1..(i - 1) : text[j] \notin Separators
             rest == SubSeq(text, k, Len(text))
             n == IF \A i \in DOMAIN rest : rest[i] \in Separators
                  THEN Len(rest)
                  ELSE (CHOOSE i \in DOMAIN rest :
                            /\ rest[i] \notin Separators
                            /\ \A j \in 1..(i - 1) : rest[j] \in Separators) - 1
         IN <<SubSeq(text, 1, k - 1)>>
            \o SplitSentences(SubSeq(rest, n + 1, Len(rest)))

FollowupKeywords ==
    { <<"t","o","d","o">>, <<"p","l","e","a","s","e">>, <<"c","a","n"," ","y","o","u">>,
      <<"c","o","u","l","d"," ","y","o","u">>, <<"f","o","l","l","o","w"," ","u","p">>,
      <<"f","o","l","l","o","w","-","u","p">>, <<"r","e","m","i","n","d">>,
      <<"n","e","e","d"," ","t","o">> }

\* the loop body's test: the stripped sentence is non-empty and holds a keyword
IsFollowup(sentence) ==
    /\ Strip(sentence) # <<>>
    /\ ContainsAny(FollowupKeywords, Lower(Strip(sentence)))

\* (variant: tasks.append(sentence), the sentence as split, not stripped)
detect_followup_tasks_unstripped(text) ==
    IF text = <<>> THEN <<>> ELSE SelectSeq(SplitSentences(text), IsFollowup)

detect_followup_tasks(text) ==
    IF text = <<>> THEN <<>>
    ELSE LET kept == SelectSeq(SplitSentences(text), IsFollowup)
         IN [i \in DOMAIN kept |-> Strip(kept[i])]

\* ------------------------------------------------------------- the clients

\* str(v) of a column value: the text itself, and "None" for NULL
PyStr(v) == IF v = TNull THEN TStr("None") ELSE v

\* a row of followup_tasks that does not carry the conversation_id it is given
FollowupRowUnlinked(cid, task) == [conversation_id |-> TStr(""), task |-> task, status |-> "pending"]

\* a row of followup_tasks as INSERT INTO followup_tasks (conversation_id, task)
\* creates it
FollowupRow(cid, task) == [conversation_id |-> cid, task |-> task, status |-> "pending"]

\* POST /messages: one transaction.  conversation_id is stored when truthy, else the
\* column is NULL; cid is the stored value (RETURNING conversation_id); one
\* followup_tasks row is inserted per detected sentence.  followup_tasks.
\* conversation_id is NOT NULL: inserting a NULL raises and db() rolls back.
create_message(cid, text) ==
    /\ Len(chat) < legacy + MaxMsgs
    /\ LET stored == IF TokTruthy(cid) THEN cid ELSE TNull
           found == detect_followup_tasks(text)
       IN IF ~pool
          THEN http' = 503 /\ chat' = chat /\ followups' = followups /\ body' = <<>>
          ELSE IF found # <<>> /\ stored = TNull
          THEN http' = 500 /\ chat' = chat /\ followups' = followups /\ body' = <<>>
          ELSE /\ chat' = Append(chat, ChatRow(Len(chat) + 1, stored, text))
               /\ followups' = followups
                                \o [i \in DOMAIN found |-> FollowupRow(stored, found[i])]
               /\ http' = 200
               /\ body' = <<[id |-> Len(chat) + 1, conversation_id |-> PyStr(stored)]>>
    /\ UNCHANGED <<tasks, nextTask, tick, legacy, lastClass, fnArgs, fnOut,
                   contacts, pool, searchVector, lastSql, hubVars>>

\* POST /tasks
create_task(cid) ==
    /\ nextTask <= MaxTasks
    /\ IF ~pool
       THEN http' = 503 /\ tasks' = tasks /\ nextTask' = nextTask
       ELSE /\ tasks' = Put(tasks, nextTask, TaskRow(cid))
            /\ nextTask' = nextTask + 1
            /\ http' = 200
    /\ UNCHANGED <<chat, tick, legacy, lastClass, fnArgs, fnOut,
                   followups, contacts, pool, body, searchVector, lastSql, hubVars>>

\* the rows a run of process_summary_tasks other than w has updated and not committed
LockedByOther(w) == UNION {DOMAIN tick[v].writes : v \in Workers \ {w}}

\* DELETE /tasks/{id}: waits for a row lock held by an open transaction; answers
\* {"ok": True} whether or not a row was deleted
delete_task(id) ==
    /\ id \notin LockedByOther("client")
    /\ IF ~pool
       THEN http' = 503 /\ tasks' = tasks
       ELSE /\ tasks' = IF id \in DOMAIN tasks THEN Drop(tasks, id) ELSE tasks
            /\ http' = 200
    /\ UNCHANGED <<chat, nextTask, tick, legacy, lastClass, fnArgs, fnOut,
                   followups, contacts, pool, body, searchVector, lastSql, hubVars>>

\* --------------------------------------------------- process_new_messages

\* (variant: the batch is one row larger)
ClassifyLimitPlusOne == 50 + 1

ClassifyLimit == 50

\* the classifier's environment during one run: MYGPT_API_URL / MYGPT_API_KEY set
\* or not, and what the LLM answers to the run's calls
ClassEnv(url, key, reply) == [url |-> url, key |-> key, reply |-> reply]

ClassEnvs ==
    {ClassEnv(FALSE, FALSE, CatReply("raise", TAbsent, TAbsent, TAbsent, TAbsent)),
     ClassEnv(TRUE, TRUE, CatReply("raise", TAbsent, TAbsent, TAbsent, TAbsent)),
     ClassEnv(TRUE, TRUE, CatReply("dict", TStr("task"), TStr("positive"),
                                   TAbsent, TAbsent)),
     ClassEnv(TRUE, TRUE, CatReply("dict", TAbsent, TAbsent,
                                   TStr(JsonNoSentiment), TAbsent)),
     ClassEnv(TRUE, TRUE, CatReply("dict", TAbsent, TAbsent,
                                   TStr(JsonOdd), TAbsent))}

\* (variant: no WHERE clause)
AllRows == DOMAIN chat

\* WHERE intent IS NULL OR sentiment IS NULL
Unclassified ==
    {i \in DOMAIN chat : chat[i].intent = TNull \/ chat[i].sentiment = TNull}

\* the subsets of S with k elements
RECURSIVE KSubsets(_, _)
KSubsets(S, k) ==
    IF k = 0 THEN {{}}
    ELSE UNION {{X \cup {x} : X \in KSubsets({y \in S : y > x}, k - 1)} : x \in S}

\* LIMIT n without ORDER BY: R is all of the matching rows S when there are at most
\* n, else any n of them
IsLimited(R, S, n) ==
    /\ R \subseteq S
    /\ Cardinality(R) = IF Cardinality(S) <= n THEN Cardinality(S) ELSE n

\* the sets R with IsLimited(R, S, n)
Limited(S, n) ==
    IF Cardinality(S) <= n THEN {S}
    ELSE {S \ X : X \in KSubsets(S, Cardinality(S) - n)}

\* (variant: the UPDATE leaves the sentiment column as it was)
ClassifiedIntentOnly(row, meta) ==
    [row EXCEPT !.intent = TStr(meta.intent),
                !.category = TStr(meta.intent)]

\* UPDATE Chat SET intent=%s, sentiment=%s, category=%s WHERE id=%s
\* with (meta["intent"], meta["sentiment"], meta["intent"], mid)
Classified(row, meta) ==
    [row EXCEPT !.intent = TStr(meta.intent),
                !.sentiment = TStr(meta.sentiment),
                !.category = TStr(meta.intent)]

\* the texts a Chat row of the model can hold
StoredTexts == {TxtEmpty, TxtHello, TxtBye, TxtHowAreYou, TxtLoveIt, TxtPleaseFix}

\* categorize_message, tabulated once over the model's texts and environments
Labels ==
    [t \in StoredTexts, e \in ClassEnvs |-> categorize_message(t, e.url, e.key, e.reply)]

\* (variant: a run that fails has stored its updates all the same)
process_new_messages_partial(env, rows, db) ==
    /\ IsLimited(rows, Unclassified, ClassifyLimit)
    /\ db \in {"ok", "fail"}
    /\ chat' = [i \in DOMAIN chat |->
                   IF i \in rows
                   THEN Classified(chat[i], Labels[chat[i].message, env])
                   ELSE chat[i]]
    /\ lastClass' = [sel |-> IF db = "ok" THEN rows ELSE {}, ok |-> db = "ok",
                     len |-> Len(chat)]
    /\ UNCHANGED <<tasks, nextTask, tick, legacy, fnArgs, fnOut, apiVars, hubVars>>

\* one run of process_new_messages: a single transaction; db is "fail" when a
\* statement or the commit raises and db() rolls everything back.
\* lastClass records whether the run committed, the rows it fetched and updated
\* when it did, and the number of stored rows at the time.
process_new_messages(env, rows, db) ==
    /\ IsLimited(rows, Unclassified, ClassifyLimit)
    /\ db \in {"ok", "fail"}
    /\ chat' = IF db = "fail" THEN chat
               ELSE [i \in DOMAIN chat |->
                       IF i \in rows
                       THEN Classified(chat[i], Labels[chat[i].message, env])
                       ELSE chat[i]]
    /\ lastClass' = [sel |-> IF db = "ok" THEN rows ELSE {}, ok |-> db = "ok",
                     len |-> Len(chat)]
    /\ UNCHANGED <<tasks, nextTask, tick, legacy, fnArgs, fnOut, apiVars, hubVars>>

\* ------------------------------------------------- process_summary_tasks

\* what the LLM may do on one call made by the job
TickReplies ==
    {SumReply("raise", JAbsent, JAbsent, JAbsent),
     SumReply("dict", JStr(TxtOkPadded), JAbsent, JAbsent)}

NoReply == SumReply("none", JAbsent, JAbsent, JAbsent)

\* nothing summarized yet in this run
\* cur describes the row the loop last worked on: what summarize_conversation did
\* (raised, summary; source, reply and msgs tell how the summary came about) and
\* which UPDATE the job then made (wrote; err names the statement that raised)
NoCur == [raised |-> FALSE, summary |-> <<>>, tid |-> 0, source |-> "none",
          reply |-> NoReply, msgs |-> <<>>, wrote |-> "none", err |-> "none"]

\* a job run that is not in progress
IdleTick ==
    [pc |-> "idle", sel |-> <<>>, i |-> 0, cur |-> NoCur, writes |-> <<>>,
     calls |-> <<>>]

\* the exception leaves process_summary_tasks: db() rolls the transaction back
Escape(w) == tick' = [tick EXCEPT ![w] = IdleTick]

\* SELECT id, conversation_id FROM summary_tasks WHERE status = 'pending'
PendingRows ==
    {<<id, tasks[id].conversation_id>> : id \in {t \in DOMAIN tasks :
                                                   tasks[t].status = "pending"}}

\* (variant: fetching claims the rows, UPDATE ... SET status='processing')
SumBeginClaiming(w, db, rows) ==
    /\ tick[w].pc = "idle"
    /\ db \in {"ok", "fail"}
    /\ IF db # "ok"
       THEN Escape(w) /\ tasks' = tasks
       ELSE /\ tick' = [tick EXCEPT ![w] =
                [pc |-> IF rows = <<>> THEN "commit" ELSE "summarize",
                 sel |-> rows, i |-> IF rows = <<>> THEN 0 ELSE 1,
                 cur |-> NoCur, writes |-> <<>>,
                 calls |-> [id \in {r[1] : r \in Range(rows)} |-> 0]]]
            /\ tasks' = [id \in DOMAIN tasks |->
                            IF id \in {r[1] : r \in Range(rows)}
                            THEN [tasks[id] EXCEPT !.status = "processing"]
                            ELSE tasks[id]]
    /\ UNCHANGED <<chat, nextTask, legacy, lastClass, fnArgs, fnOut, apiVars, hubVars>>

\* with db() ...: cur.execute(sql_pending); tasks = cur.fetchall()
\* db is "fail" when db() or the query raises
SumBegin(w, db, rows) ==
    /\ tick[w].pc = "idle"
    /\ db \in {"ok", "fail"}
    /\ IF db # "ok"
       THEN Escape(w)
       ELSE tick' = [tick EXCEPT ![w] =
                [pc |-> IF rows = <<>> THEN "commit" ELSE "summarize",
                 sel |-> rows, i |-> IF rows = <<>> THEN 0 ELSE 1,
                 cur |-> NoCur, writes |-> <<>>,
                 calls |-> [id \in {r[1] : r \in Range(rows)} |-> 0]]]
    /\ UNCHANGED <<chat, tasks, nextTask, legacy, lastClass, fnArgs, fnOut, apiVars, hubVars>>

\* summary = summarize_conversation(cid), on a connection of its own
\* db is "fail" when that connection or its query raises
SumSummarize(w, db, reply) ==
    /\ tick[w].pc = "summarize"
    /\ db \in {"ok", "fail"}
    /\ LET tid == tick[w].sel[tick[w].i][1]
           cid == tick[w].sel[tick[w].i][2]
           msgs == ConversationTexts(chat, cid)
           res == summarize_messages(msgs, reply)
       IN tick' = [tick EXCEPT
               ![w].pc = "write",
               ![w].calls[tid] = @ + 1,
               ![w].cur =
                   IF db = "fail"
                   THEN [NoCur EXCEPT !.raised = TRUE, !.tid = tid,
                                      !.source = "dberror"]
                   ELSE [raised |-> FALSE, summary |-> res.value, tid |-> tid,
                         source |-> res.source,
                         reply |-> IF res.called THEN reply ELSE NoReply,
                         msgs |-> msgs, wrote |-> "none", err |-> "none"]]
    /\ UNCHANGED <<chat, tasks, nextTask, legacy, lastClass, fnArgs, fnOut, apiVars, hubVars>>

\* the loop goes on to the next fetched row, or leaves the with block
Advance(t, writes, wrote, err) ==
    [t EXCEPT !.pc = IF t.i = Len(t.sel) THEN "commit" ELSE "summarize",
              !.i = IF t.i = Len(t.sel) THEN @ ELSE @ + 1,
              !.writes = writes,
              !.cur.wrote = wrote,
              !.cur.err = err]

\* (variant: the UPDATE sets the status and forgets the summary)
SqlUpdateStatusOnly(t, tid, summary) ==
    IF tid \in DOMAIN tasks
    THEN Advance(t, Put(t.writes, tid, [tasks[tid] EXCEPT !.status = "completed"]),
                 "completed", "none")
    ELSE Advance(t, t.writes, "norow", "none")

\* UPDATE summary_tasks SET summary=%s, status='completed' WHERE id=%s
SqlUpdate(t, tid, summary) ==
    IF tid \in DOMAIN tasks
    THEN Advance(t, Put(t.writes, tid,
                        [tasks[tid] EXCEPT !.status = "completed",
                                           !.summary = JStr(summary)]),
                 "completed", "none")
    ELSE Advance(t, t.writes, "norow", "none")

\* the handler: UPDATE summary_tasks SET status='failed' WHERE id=%s
SqlFail(t, tid) ==
    LET err == IF t.cur.raised THEN "summarize" ELSE "update"
    IN IF tid \in DOMAIN tasks
       THEN Advance(t, Put(t.writes, tid, [tasks[tid] EXCEPT !.status = "failed"]),
                    "failed", err)
       ELSE Advance(t, t.writes, "norow", err)

\* cur.execute(sql_update, ...) in the try block, cur.execute(sql_fail, ...) in the
\* handler.  upd, how the first statement ends: "ok"; "client", it raises before it
\* reaches the server; "server", the server rejects it and the transaction is
\* aborted.  fail, how the handler's statement ends: "ok" or "server".  A statement
\* on an aborted transaction raises; a statement on a row another open transaction
\* has written waits for that transaction.
SumWrite(w, upd, fail) ==
    /\ tick[w].pc = "write"
    /\ upd \in {"ok", "client", "server"} /\ fail \in {"ok", "server"}
    /\ LET t == tick[w]
           tid == t.sel[t.i][1]
           free == tid \notin LockedByOther(w)
       IN IF ~t.cur.raised /\ upd = "ok"
          THEN free /\ tick' = [tick EXCEPT ![w] = SqlUpdate(t, tid, t.cur.summary)]
          ELSE IF (~t.cur.raised /\ upd = "server") \/ fail = "server"
          THEN Escape(w)
          ELSE free /\ tick' = [tick EXCEPT ![w] = SqlFail(t, tid)]
    /\ UNCHANGED <<chat, tasks, nextTask, legacy, lastClass, fnArgs, fnOut, apiVars, hubVars>>

\* leaving "with db()": conn.commit(), or rollback and re-raise when it fails
SumCommit(w, db) ==
    /\ tick[w].pc = "commit"
    /\ db \in {"ok", "fail"}
    /\ IF db = "ok"
       THEN /\ tasks' = [id \in DOMAIN tasks |->
                            IF id \in DOMAIN tick[w].writes
                            THEN tick[w].writes[id] ELSE tasks[id]]
            /\ tick' = [tick EXCEPT ![w] = IdleTick]
       ELSE /\ tasks' = tasks
            /\ Escape(w)
    /\ UNCHANGED <<chat, nextTask, legacy, lastClass, fnArgs, fnOut, apiVars, hubVars>>

\* ------------------------------------------------------------ specification

MsgInputs == {<<TStr("c1"), TxtHello>>, <<TStr("c1"), TxtBye>>, <<TStr("c1"), TxtEmpty>>}

Init ==
    /\ InitApi /\ InitHub
    /\ chat = <<>>
    /\ tasks = <<>>
    /\ nextTask = 1
    /\ tick = [w \in Workers |-> IdleTick]
    /\ legacy = 0
    /\ lastClass = NoClass
    /\ fnArgs = NoResult
    /\ fnOut = NoResult

Next ==
    \/ \E m \in MsgInputs : create_message(m[1], m[2]) /\ UNCHANGED req
    \/ \E c \in Convs : create_task(c) /\ UNCHANGED req
    \/ \E id \in 1..MaxTasks : delete_task(id) /\ UNCHANGED req
    \/ \E w \in Workers, db \in {"ok", "fail"}, rows \in Orders(PendingRows) :
          SumBegin(w, db, rows)
    \/ \E w \in Workers, db \in {"ok", "fail"}, reply \in TickReplies :
          SumSummarize(w, db, reply)
    \/ \E w \in Workers, upd \in {"ok", "client", "server"}, fail \in {"ok", "server"} :
          SumWrite(w, upd, fail)
    \/ \E w \in Workers, db \in {"ok", "fail"} : SumCommit(w, db)

Spec == Init /\ [][Next]_vars

\* The classification job on a store that already holds a backlog of unclassified
\* rows (stored before the job first ran), sized so that the messages clients
\* then create take the backlog one past the job's batch size.
LegacyRows == ClassifyLimit + 1 - MaxMsgs

LegacyText(i) == IF i % 2 = 1 THEN TxtHowAreYou ELSE TxtLoveIt

InitClassify ==
    /\ InitApi /\ InitHub
    /\ chat = [i \in 1..LegacyRows |-> ChatRow(i, TStr("c1"), LegacyText(i))]
    /\ legacy = LegacyRows
    /\ tasks = <<>>
    /\ nextTask = 1
    /\ tick = [w \in Workers |-> IdleTick]
    /\ lastClass = NoClass
    /\ fnArgs = NoResult
    /\ fnOut = NoResult

NextClassify ==
    \/ \E m \in MsgInputs : create_message(m[1], m[2]) /\ UNCHANGED req
    \/ \E env \in ClassEnvs, rows \in Limited(Unclassified, ClassifyLimit),
          db \in {"ok", "fail"} : process_new_messages(env, rows, db)

SpecClassify == InitClassify /\ [][NextClassify]_vars

\* ------------------------------------------- the heuristic on composed texts

\* fragments a message is composed of: what decides the intent ...
IntentParts ==
    { <<>>, <<"?">>, <<"P","l","e","a","s","e">>, <<"C","A","N"," ","Y","O","U">>,
      <<"c","o","u","l","d"," ","y","o","u">>, <<"T","o","D","o">>,
      <<"k","i","n","d","l","y">>, <<"F","o","l","l","o","w"," ","u","p">>,
      <<"f","o","l","l","o","w","u","p">>, <<"p","l","e","a","s">> }

\* ... and what decides the sentiment
SentimentParts ==
    { <<>>, <<"g","o","o","d">>, <<"G","r","e","a","t">>, <<"L","O","V","E">>,
      <<"u","n","l","i","k","e","l","y">>, <<"e","x","c","e","l","l","e","n","t">>,
      <<"h","a","p","p","y">>, <<"A","w","e","s","o","m","e">>,
      <<"f","a","n","t","a","s","t","i","c">>, <<"b","a","d","g","e">>,
      <<"T","e","r","r","i","b","l","e">>, <<"h","a","t","e">>,
      <<"d","i","s","l","i","k","e">>, <<"A","W","F","U","L">>, <<"s","a","d">>,
      <<"a","n","g","r","y">>, <<"f","i","n","e">>, <<"g","o","d">> }

HeuristicTexts ==
    {a \o <<" ">> \o b \o <<" ">> \o c :
        a \in SentimentParts, b \in IntentParts, c \in {<<>>, <<"S","a","d">>}}

\* categorize_message with the remote LLM not configured (URL or key unset)
InitHeuristic ==
    /\ InitApi /\ InitHub
    /\ chat = <<>> /\ tasks = <<>> /\ nextTask = 1
    /\ tick = <<>> /\ legacy = 0 /\ lastClass = NoClass
    /\ fnArgs \in {[op |-> "categorize", text |-> t, url |-> u, key |-> FALSE,
                    reply |-> CatReply("raise", TAbsent, TAbsent, TAbsent, TAbsent)] :
                      t \in HeuristicTexts, u \in BOOLEAN}
    /\ fnOut = NoResult

NextHeuristic == ApplyCategorize

SpecHeuristic == InitHeuristic /\ [][NextHeuristic]_vars

\* ------------------------------------- detect_followup_tasks on composed texts

\* the pieces a text handed to detect_followup_tasks is made of
MaxParts == 4

TextParts ==
    { <<"T","o","d","o">>, <<"o","k">>, <<" ">>, <<".">>, <<"?","!">>, <<"\n">>,
      <<"n","e","e","d"," ","t","o">>, <<"f","o","l","l","o","w","-","u","p">> }

RECURSIVE Concat(_)
Concat(parts) == IF parts = <<>> THEN <<>> ELSE Head(parts) \o Concat(Tail(parts))

FollowupTexts == {Concat(ps) : ps \in UNION {[1..n -> TextParts] : n \in 0..MaxParts}}

ApplyFollowup ==
    /\ fnArgs.op = "followup" /\ fnOut = NoResult
    /\ fnOut' = [op |-> "followup", tasks |-> detect_followup_tasks(fnArgs.text)]
    /\ UNCHANGED <<chat, tasks, nextTask, tick, legacy, lastClass, fnArgs, apiVars, hubVars>>

InitFollowup ==
    /\ InitApi /\ InitHub
    /\ chat = <<>> /\ tasks = <<>> /\ nextTask = 1
    /\ tick = <<>> /\ legacy = 0 /\ lastClass = NoClass
    /\ fnArgs \in {[op |-> "followup", text |-> t] : t \in FollowupTexts}
    /\ fnOut = NoResult

NextFollowup == ApplyFollowup

SpecFollowup == InitFollowup /\ [][NextFollowup]_vars

\* ------------------------------------------------------------ app.py routes

jobVars == <<tick, legacy, lastClass, fnArgs, fnOut>>

\* rows[:n], the effect of LIMIT n
Take(rows, n) == SubSeq(rows, 1, IF n < Len(rows) THEN n ELSE Len(rows))

\* rows in the opposite order: ORDER BY created_at DESC over rows kept in
\* created_at order
Reverse(rows) == [i \in 1..Len(rows) |-> rows[Len(rows) + 1 - i]]

\* text LIKE pattern: % matches any run of characters, _ any one character, and
\* a backslash makes the character after it literal
RECURSIVE LikeMatch(_, _)
LikeMatch(p, s) ==
    IF p = <<>> THEN s = <<>>
    ELSE IF Head(p) = "%"
    THEN LikeMatch(Tail(p), s) \/ (s # <<>> /\ LikeMatch(p, Tail(s)))
    ELSE IF Head(p) = "\\"
    THEN /\ Len(p) >= 2
         /\ s # <<>>
         /\ p[2] = Head(s)
         /\ LikeMatch(SubSeq(p, 3, Len(p)), Tail(s))
    ELSE IF Head(p) = "_"
    THEN s # <<>> /\ LikeMatch(Tail(p), Tail(s))
    ELSE s # <<>> /\ Head(p) = Head(s) /\ LikeMatch(Tail(p), Tail(s))

\* text ILIKE pattern
ILike(s, p) == LikeMatch(Lower(p), Lower(s))

\* GET /conversations/{conversation_id}/messages, newest rows last
list_conversation_messages_desc(conversation_id, limit) ==
    /\ IF ~pool
       THEN http' = 503 /\ body' = <<>>
       ELSE LET InConversation(r) == r.conversation_id = TStr(conversation_id)
            IN /\ body' = Take(Reverse(SelectSeq(chat, InConversation)), limit)
               /\ http' = 200
    /\ UNCHANGED <<chat, tasks, nextTask, jobVars, followups, contacts, pool,
                   searchVector, lastSql, hubVars>>

\* GET /conversations/{conversation_id}/messages:
\* WHERE conversation_id = %s ORDER BY created_at ASC LIMIT %s
list_conversation_messages(conversation_id, limit) ==
    /\ IF ~pool
       THEN http' = 503 /\ body' = <<>>
       ELSE LET InConversation(r) == r.conversation_id = TStr(conversation_id)
            IN /\ body' = Take(SelectSeq(chat, InConversation), limit)
               /\ http' = 200
    /\ UNCHANGED <<chat, tasks, nextTask, jobVars, followups, contacts, pool,
                   searchVector, lastSql, hubVars>>

\* GET /search: WHERE message ILIKE %s ORDER BY created_at DESC LIMIT %s with
\* the parameters (f"%{q}%", limit); the handler issues this one statement
\* whatever columns Chat has
search_messages(q, limit) ==
    /\ IF ~pool
       THEN http' = 503 /\ body' = <<>> /\ lastSql' = lastSql
       ELSE LET Matches(r) == ILike(r.message, <<"%">> \o q \o <<"%">>)
            IN /\ body' = Take(Reverse(SelectSeq(chat, Matches)), limit)
               /\ lastSql' = "ILIKE"
               /\ http' = 200
    /\ UNCHANGED <<chat, tasks, nextTask, jobVars, followups, contacts, pool,
                   searchVector, hubVars>>

\* POST /webhook
webhook_ingest(cid, text) == create_message(cid, text)

\* ------------------------------------------------------------ authentication

API_KEY_EXPECTED == <<"d","e","v","-","a","p","i","-","k","e","y">>

\* a character outside ASCII, as a header value can carry
NonAscii == {"~e"}

\* secrets.compare_digest on two str: TypeError when either holds a character
\* outside ASCII, else whether they are equal
compare_digest(a, b) ==
    IF \E i \in DOMAIN a : a[i] \in NonAscii THEN "TypeError"
    ELSE IF \E i \in DOMAIN b : b[i] \in NonAscii THEN "TypeError"
    ELSE IF a = b THEN "True" ELSE "False"

\* the dependency require_api_key: the status it ends the request with, 0 when
\* it lets the request through (an exception that is not an HTTPException
\* becomes the 500 response)
require_api_key(x_api_key) ==
    LET same == compare_digest(x_api_key, API_KEY_EXPECTED)
    IN IF same = "TypeError" THEN 500
       ELSE IF same = "False" THEN 401
       ELSE 0

\* the requests so far went to this server: app.py and server.py are separate
\* processes that share no state, and a run is followed on one of them
OnServer(name) == IF req.route = "none" THEN TRUE ELSE req.server = name

\* a response produced without entering the handler
Rejected(status) ==
    /\ http' = status
    /\ body' = <<>>
    /\ UNCHANGED <<chat, tasks, nextTask, jobVars, followups, contacts, pool,
                   searchVector, lastSql, hubVars>>

\* a route declared with dependencies=[Depends(require_api_key)], entered with
\* request r; handler is the action of its function
Protected(r, handler) ==
    /\ OnServer("app.py")
    /\ req' = [server |-> "app.py"] @@ r
    /\ IF require_api_key(r.key) = 0 THEN handler ELSE Rejected(require_api_key(r.key))

\* ------------------------------------------------------------ message routes

MaxLimit == 2

TxtTwoTasks == <<"t","o","d","o"," ","a",".","O","k","!"," ","N","e","e","d"," ","t","o"," ","b">>

MessageTexts == {TxtHello, TxtPleaseFix, TxtTwoTasks}

\* conversation_id of a MessageIn: a string, the empty string, or left out
MessageConvs == {TStr("c1"), TStr("c2"), TStr(""), TNull}

Queries == {<<"l">>, <<"E","L">>, <<"f","i","x">>, <<"_">>, <<"%">>, <<"\\">>, <<"z">>}


InitMessages ==
    /\ followups = <<>> /\ contacts = <<>> /\ pool = TRUE /\ http = 0 /\ body = <<>>
    /\ req = NoReq /\ lastSql = "none"
    /\ searchVector \in BOOLEAN
    /\ InitHub
    /\ chat = <<>>
    /\ tasks = <<>>
    /\ nextTask = 1
    /\ tick = [w \in Workers |-> IdleTick]
    /\ legacy = 0
    /\ lastClass = NoClass
    /\ fnArgs = NoResult
    /\ fnOut = NoResult

NextMessages ==
    \/ \E cid \in MessageConvs, text \in MessageTexts :
          Protected([route |-> "POST /messages", key |-> API_KEY_EXPECTED,
                     cid |-> cid, text |-> text],
                    create_message(cid, text))
    \/ \E cid \in MessageConvs, text \in MessageTexts :
          Protected([route |-> "POST /webhook", key |-> API_KEY_EXPECTED,
                     cid |-> cid, text |-> text],
                    webhook_ingest(cid, text))
    \/ \E c \in {"c1", "c2"}, limit \in 1..MaxLimit :
          Protected([route |-> "GET /conversations", key |-> API_KEY_EXPECTED,
                     conversation_id |-> c, limit |-> limit],
                    list_conversation_messages(c, limit))
    \/ \E q \in Queries, limit \in 1..MaxLimit :
          Protected([route |-> "GET /search", key |-> API_KEY_EXPECTED,
                     q |-> q, limit |-> limit],
                    search_messages(q, limit))

SpecMessages == InitMessages /\ [][NextMessages]_vars

\* ------------------------------------------------- app.py: the other routes

MaxContacts == 1

dbVars == <<chat, tasks, nextTask, followups, contacts, pool, searchVector, lastSql>>

\* GET /health
health ==
    /\ http' = 200
    /\ body' = <<>>
    /\ UNCHANGED <<dbVars, jobVars, hubVars>>

\* a reply of generate_test_response to /suggestions: it raised, or it is a
\* dict whose "response" holds these lines
SuggestionReplies ==
    {[raised |-> TRUE, lines |-> <<>>],
     [raised |-> FALSE, lines |-> <<TxtOkPadded, TxtBlank, TxtBye>>]}

\* POST /suggestions: db() is entered before the try block; the suggestions are
\* the stripped non-blank lines of the reply, at most limit of them. The detail
\* f"myGPT error: {e}" of the 500 is kept in two parts, the fixed prefix and
\* the text of the exception
generate_suggestions(conversation_id, limit, reply) ==
    /\ IF ~pool THEN http' = 503 /\ body' = <<>>
       ELSE IF reply.raised
       THEN /\ http' = 500
            /\ body' = <<[error |-> TStr("myGPT error"),
                          details |-> TStr("Connection refused"),
                          status |-> TAbsent, response |-> TAbsent]>>
       ELSE LET NotBlank(s) == Strip(s) # <<>>
                kept == SelectSeq(reply.lines, NotBlank)
            IN /\ body' = Take([i \in DOMAIN kept |-> Strip(kept[i])], limit)
               /\ http' = 200
    /\ UNCHANGED <<dbVars, jobVars, hubVars>>

\* POST /contacts
create_contact(name) ==
    /\ Len(contacts) < MaxContacts
    /\ IF ~pool THEN http' = 503 /\ contacts' = contacts
       ELSE /\ contacts' = Append(contacts, [id |-> Len(contacts) + 1, name |-> name])
            /\ http' = 200
    /\ body' = <<>>
    /\ UNCHANGED <<chat, tasks, nextTask, followups, pool, searchVector, lastSql,
                   jobVars, hubVars>>

\* GET /contacts: ORDER BY id
list_contacts ==
    /\ IF ~pool THEN http' = 503 /\ body' = <<>>
       ELSE http' = 200 /\ body' = contacts
    /\ UNCHANGED <<dbVars, jobVars, hubVars>>

\* a row of summary_tasks as the task routes return it
TaskOut(id) ==
    [id |-> id, conversation_id |-> tasks[id].conversation_id,
     status |-> tasks[id].status, summary |-> tasks[id].summary]

\* GET /tasks: ORDER BY created_at DESC
list_tasks ==
    /\ IF ~pool THEN http' = 503 /\ body' = <<>>
       ELSE /\ http' = 200
            /\ body' = [k \in 1..Cardinality(DOMAIN tasks) |->
                          TaskOut(CHOOSE i \in DOMAIN tasks :
                                     Cardinality({j \in DOMAIN tasks : j > i}) = k - 1)]
    /\ UNCHANGED <<dbVars, jobVars, hubVars>>

\* GET /tasks/{task_id} where a missing pool is not handled
get_task_unguarded(task_id) ==
    /\ IF ~pool THEN http' = 500 /\ body' = <<>>
       ELSE IF task_id \notin DOMAIN tasks THEN http' = 404 /\ body' = <<>>
       ELSE http' = 200 /\ body' = <<TaskOut(task_id)>>
    /\ UNCHANGED <<dbVars, jobVars, hubVars>>

\* GET /tasks/{task_id}
get_task(task_id) ==
    /\ IF ~pool THEN http' = 503 /\ body' = <<>>
       ELSE IF task_id \notin DOMAIN tasks THEN http' = 404 /\ body' = <<>>
       ELSE http' = 200 /\ body' = <<TaskOut(task_id)>>
    /\ UNCHANGED <<dbVars, jobVars, hubVars>>

\* POST /context: no store is touched; every failure is a 500
match_context(outcome) ==
    /\ http' = IF outcome = "ok" THEN 200 ELSE 500
    /\ body' = <<>>
    /\ UNCHANGED <<dbVars, jobVars, hubVars>>

\* ------------------------------------------------------------ server.py

API_KEY == <<"d","e","v","-","a","p","i","-","k","e","y">>


\* check_api_key, run before every request: the status it answers with, 0 when
\* the request goes on to its handler; an empty API_KEY switches the check off
check_api_key(provided) ==
    IF API_KEY = <<>> THEN 0
    ELSE LET same == compare_digest(provided, API_KEY)
         IN IF same = "TypeError" THEN 500
            ELSE IF same = "False" THEN 401
            ELSE 0

\* a request r to a route of server.py; handler is the action of its function
Hub(r, handler) ==
    /\ OnServer("server.py")
    /\ req' = [server |-> "server.py"] @@ r
    /\ IF check_api_key(r.key) = 0 THEN handler ELSE Rejected(check_api_key(r.key))

\* (variant: the history keeps one entry more)
HistoryCapPlusOne == 10 + 1

\* if len(self._responses) > 10
HistoryCap == 10

\* InMemoryStore.add_response: append, then drop the oldest beyond the cap
add_response(response) ==
    LET all == Append(responses, response)
    IN IF Len(all) > HistoryCap THEN Tail(all) ELSE all

\* POST /send-prompt; data is the value of 'prompt' in the JSON body, absent
\* when there is no body or no such member
send_prompt(data) ==
    /\ IF data = TAbsent THEN http' = 400 /\ prompt' = prompt
       ELSE http' = 200 /\ prompt' = data
    /\ body' = <<>>
    /\ UNCHANGED <<dbVars, jobVars, responses, arrived, hubRun>>

\* GET /get-prompt: pop_prompt
get_prompt ==
    /\ body' = <<prompt>>
    /\ prompt' = NoPrompt
    /\ http' = 200
    /\ UNCHANGED <<dbVars, jobVars, responses, arrived, hubRun>>

\* POST /ack-prompt
ack_prompt ==
    /\ prompt' = NoPrompt
    /\ http' = 200
    /\ body' = <<>>
    /\ UNCHANGED <<dbVars, jobVars, responses, arrived, hubRun>>

\* POST /process-response; the response is stored before len(response) is
\* logged, which raises for a response that is not a string
process_response(data) ==
    /\ IF data = TAbsent
       THEN http' = 400 /\ responses' = responses /\ arrived' = arrived
       ELSE /\ responses' = add_response(data)
            /\ arrived' = Append(arrived, data)
            /\ http' = IF data.t = "str" THEN 200 ELSE 500
    /\ body' = <<>>
    /\ UNCHANGED <<dbVars, jobVars, prompt, hubRun>>

\* the reply /test-response stores for a prompt that names none of its topics
DefaultTestResponse == TStr("Thank you for your message. I'll get back to you soon.")

\* str(e) of the exception the upstream call raised
ExcText(outcome) ==
    IF outcome = "failed"
    THEN TStr("HTTPSConnectionPool(host='mygpt', port=443): Max retries exceeded")
    ELSE TStr("Expecting value: line 1 column 1 (char 0)")

\* jsonify({'error': ..., 'details': ...}), status
ErrorReply(status, error, details) ==
    [status |-> status,
     json |-> [error |-> TStr(error), details |-> details, status |-> TAbsent,
               response |-> TAbsent]]

\* the dict returned with 200 once the reply is stored
SuccessReply(response) ==
    [status |-> 200,
     json |-> [error |-> TAbsent, details |-> TAbsent, status |-> TStr("success"),
               response |-> response]]

\* (variant: a failure of the upstream call is answered like a reply)
TestResponseRepliesSwallowed(data, outcome) ==
    IF data = TAbsent THEN {ErrorReply(400, "No prompt provided", TAbsent)}
    ELSE {SuccessReply(DefaultTestResponse)}

\* what /test-response can answer. response.json() raises ValueError in older
\* releases of requests and a JSONDecodeError that is also a RequestException
\* in newer ones, where the except clause for RequestException comes first
TestResponseReplies(data, outcome) ==
    IF data = TAbsent THEN {ErrorReply(400, "No prompt provided", TAbsent)}
    ELSE IF outcome = "unconfigured"
    THEN {ErrorReply(500, "myGPT API is not configured", TAbsent)}
    ELSE IF outcome = "timeout"
    THEN {ErrorReply(504, "myGPT API request timed out", TAbsent)}
    ELSE IF outcome = "failed"
    THEN {ErrorReply(502, "myGPT API request failed", ExcText(outcome))}
    ELSE IF outcome = "invalid json"
    THEN {ErrorReply(502, "Invalid response from myGPT API", TAbsent),
          ErrorReply(502, "myGPT API request failed", ExcText(outcome))}
    ELSE IF outcome = "empty"
    THEN {ErrorReply(502, "Empty response from myGPT API", TAbsent)}
    ELSE IF data.t # "str" THEN {ErrorReply(500, "Internal server error", TAbsent)}
    ELSE {SuccessReply(DefaultTestResponse)}

\* (variant: the canned reply is stored before the upstream call is made)
generate_test_response_eager(data, outcome) ==
    /\ \E reply \in TestResponseReplies(data, outcome) :
          /\ http' = reply.status
          /\ body' = <<reply.json>>
          /\ responses' = IF data # TAbsent THEN add_response(DefaultTestResponse)
                          ELSE responses
          /\ arrived' = IF data # TAbsent THEN Append(arrived, DefaultTestResponse)
                        ELSE arrived
    /\ UNCHANGED <<dbVars, jobVars, prompt, hubRun>>

\* POST /test-response with a prompt that names none of the topics; outcome is
\* what the upstream myGPT call did
generate_test_response(data, outcome) ==
    /\ \E reply \in TestResponseReplies(data, outcome) :
          /\ http' = reply.status
          /\ body' = <<reply.json>>
          /\ responses' = IF reply.status = 200 THEN add_response(DefaultTestResponse)
                          ELSE responses
          /\ arrived' = IF reply.status = 200 THEN Append(arrived, DefaultTestResponse)
                        ELSE arrived
    /\ UNCHANGED <<dbVars, jobVars, prompt, hubRun>>

\* GET /status
get_status ==
    /\ body' = <<[stored_prompt |-> prompt # NoPrompt, response_count |-> Len(responses)]>>
    /\ http' = 200
    /\ UNCHANGED <<dbVars, jobVars, hubVars>>

\* GET /history
get_history ==
    /\ body' = responses
    /\ http' = 200
    /\ UNCHANGED <<dbVars, jobVars, hubVars>>

\* POST /clear
clear_data ==
    /\ prompt' = NoPrompt
    /\ responses' = <<>>
    /\ arrived' = <<>>
    /\ http' = 200
    /\ body' = <<>>
    /\ UNCHANGED <<dbVars, jobVars, hubRun>>

\* ------------------------------------------------- requests to both servers

\* values of the key header: left out, wrong, wrong with a character outside
\* ASCII, and the configured secret
Keys == {<<>>, <<"x">>, <<"~e">>, API_KEY_EXPECTED}

\* JSON bodies of the server.py routes: no usable member, or a string
HubPayloads == {TAbsent, DefaultTestResponse}

UpstreamOutcomes == {"unconfigured", "timeout", "failed", "invalid json", "empty", "ok"}

\* responses the clients of server.py send before the history is cleared
MaxResponses == 2

\* the routes of app.py, requested with a key of keys
ApiRoutes(keys) ==
    \/ \E key \in keys :
          /\ OnServer("app.py")
          /\ req' = [server |-> "app.py", route |-> "GET /health", key |-> key]
          /\ health
    \/ \E key \in keys, cid \in {TStr("c1"), TNull} :
          Protected([route |-> "POST /messages", key |-> key, cid |-> cid,
                     text |-> TxtPleaseFix],
                    create_message(cid, TxtPleaseFix))
    \/ \E key \in keys :
          Protected([route |-> "POST /webhook", key |-> key, cid |-> TStr("c1"),
                     text |-> TxtHello],
                    webhook_ingest(TStr("c1"), TxtHello))
    \/ \E key \in keys, reply \in SuggestionReplies :
          Protected([route |-> "POST /suggestions", key |-> key],
                    generate_suggestions("c1", 1, reply))
    \/ \E key \in keys :
          Protected([route |-> "GET /search", key |-> key, q |-> <<"l">>, limit |-> 1],
                    search_messages(<<"l">>, 1))
    \/ \E key \in keys :
          Protected([route |-> "POST /contacts", key |-> key], create_contact("n"))
    \/ \E key \in keys :
          Protected([route |-> "GET /contacts", key |-> key], list_contacts)
    \/ \E key \in keys :
          Protected([route |-> "GET /conversations", key |-> key,
                     conversation_id |-> "c1", limit |-> 1],
                    list_conversation_messages("c1", 1))
    \/ \E key \in keys :
          Protected([route |-> "POST /tasks", key |-> key], create_task("c1"))
    \/ \E key \in keys :
          Protected([route |-> "GET /tasks", key |-> key], list_tasks)
    \/ \E key \in keys, id \in 1..MaxTasks :
          Protected([route |-> "GET /tasks/{task_id}", key |-> key, id |-> id],
                    get_task(id))
    \/ \E key \in keys, id \in 1..MaxTasks :
          Protected([route |-> "DELETE /tasks/{task_id}", key |-> key, id |-> id],
                    delete_task(id))
    \/ \E key \in keys, outcome \in {"ok", "failed"} :
          Protected([route |-> "POST /context", key |-> key], match_context(outcome))

\* the routes of server.py, requested with a key of keys
HubRoutes(keys) ==
    \/ \E key \in keys, data \in HubPayloads :
          Hub([route |-> "POST /send-prompt", key |-> key], send_prompt(data))
    \/ \E key \in keys : Hub([route |-> "GET /get-prompt", key |-> key], get_prompt)
    \/ \E key \in keys : Hub([route |-> "POST /ack-prompt", key |-> key], ack_prompt)
    \/ \E key \in keys, data \in HubPayloads :
          /\ Len(responses) < MaxResponses
          /\ Hub([route |-> "POST /process-response", key |-> key],
                 process_response(data))
    \/ \E key \in keys, data \in HubPayloads, outcome \in UpstreamOutcomes :
          /\ Len(responses) < MaxResponses
          /\ Hub([route |-> "POST /test-response", key |-> key, data |-> data,
                  outcome |-> outcome],
                 generate_test_response(data, outcome))
    \/ \E key \in keys : Hub([route |-> "GET /status", key |-> key], get_status)
    \/ \E key \in keys : Hub([route |-> "GET /history", key |-> key], get_history)
    \/ \E key \in keys : Hub([route |-> "POST /clear", key |-> key], clear_data)

\* both servers started; the pool may have failed to initialize
InitRoutes ==
    /\ followups = <<>> /\ contacts = <<>> /\ http = 0 /\ body = <<>>
    /\ req = NoReq /\ lastSql = "none" /\ searchVector = TRUE
    /\ pool \in BOOLEAN
    /\ InitHub
    /\ chat = <<>>
    /\ tasks = <<>>
    /\ nextTask = 1
    /\ tick = [w \in Workers |-> IdleTick]
    /\ legacy = 0
    /\ lastClass = NoClass
    /\ fnArgs = NoResult
    /\ fnOut = NoResult

\* clients that hold the key
NextRoutes == ApiRoutes({API_KEY_EXPECTED})

SpecRoutes == InitRoutes /\ [][NextRoutes]_vars

\* clients with any key, on either server
NextAuth == ApiRoutes(Keys) \/ HubRoutes(Keys)

SpecAuth == InitRoutes /\ [][NextAuth]_vars

\* -------------------------------------------------- ingestors: _forward

\* the adapters, by the name each puts in its error message
Adapters == {"SMS", "WhatsApp", "Messenger", "Outlook", "Aula"}

\* (variant: one attempt more)
StopAfterAttemptPlusOne == 3 + 1

\* stop=stop_after_attempt(3)
StopAfterAttempt == 3

\* what one requests.post to /webhook does: raises, or returns a response with
\* a 2xx or another status
PostOutcomes == {"raises", "2xx", "non-2xx"}

\* _forward entered, nothing posted yet
ForwardStart == [op |-> "forward", pc |-> "post", attempts |-> 0, log |-> <<>>]

\* (variant: raise_for_status() is called inside the retried function)
post_with_retry_status ==
    /\ fnArgs.op = "forward" /\ fnOut.pc = "post"
    /\ LET n == fnOut.attempts + 1
           outcome == fnArgs.outcomes[n]
       IN fnOut' =
             IF outcome = "2xx"
             THEN [fnOut EXCEPT !.attempts = n, !.pc = outcome]
             ELSE IF n >= StopAfterAttempt
             THEN [fnOut EXCEPT !.attempts = n, !.pc = "raised"]
             ELSE [fnOut EXCEPT !.attempts = n, !.log = Append(@, "WARNING")]
    /\ UNCHANGED <<chat, tasks, nextTask, tick, legacy, lastClass, fnArgs, apiVars, hubVars>>

\* one attempt of _post_with_retry: a response ends the retrying; an exception
\* is logged at WARNING by before_sleep and retried after the wait, and from
\* the last attempt allowed it is re-raised (reraise=True)
post_with_retry ==
    /\ fnArgs.op = "forward" /\ fnOut.pc = "post"
    /\ LET n == fnOut.attempts + 1
           outcome == fnArgs.outcomes[n]
       IN fnOut' =
             IF outcome # "raises"
             THEN [fnOut EXCEPT !.attempts = n, !.pc = outcome]
             ELSE IF n >= StopAfterAttempt
             THEN [fnOut EXCEPT !.attempts = n, !.pc = "raised"]
             ELSE [fnOut EXCEPT !.attempts = n, !.log = Append(@, "WARNING")]
    /\ UNCHANGED <<chat, tasks, nextTask, tick, legacy, lastClass, fnArgs, apiVars, hubVars>>

\* the rest of _forward: raise_for_status() on the response, and the except
\* clause that logs "Failed forwarding <adapter> message" at ERROR
forward_return ==
    /\ fnArgs.op = "forward" /\ fnOut.pc \in {"2xx", "non-2xx", "raised"}
    /\ fnOut' = IF fnOut.pc = "2xx"
                THEN [fnOut EXCEPT !.pc = "returned"]
                ELSE [fnOut EXCEPT !.pc = "returned",
                                   !.log = Append(@, "ERROR " \o fnArgs.adapter)]
    /\ UNCHANGED <<chat, tasks, nextTask, tick, legacy, lastClass, fnArgs, apiVars, hubVars>>

InitForward ==
    /\ InitApi /\ InitHub
    /\ chat = <<>> /\ tasks = <<>> /\ nextTask = 1
    /\ tick = <<>> /\ legacy = 0 /\ lastClass = NoClass
    /\ fnArgs \in {[op |-> "forward", adapter |-> a, outcomes |-> o] :
                     a \in Adapters, o \in [1..(StopAfterAttempt + 1) -> PostOutcomes]}
    /\ fnOut = ForwardStart

NextForward == post_with_retry \/ forward_return

SpecForward == InitForward /\ [][NextForward]_vars

\* ------------------------------------------ server.py: concurrent add_response

MaxAdds == 3

\* request threads of server.py that store responses
Adders == {"a1", "a2", "a3"}

\* a response that was stored before the run observed here
OldResponse == TStr("old")

\* add_response, entry: `with self._lock` acquires the lock
add_response_acquire(t) ==
    /\ callers[t].pc = "idle"
    /\ lock = "free"
    /\ Cardinality({i \in DOMAIN arrived : arrived[i] # OldResponse}) < MaxAdds
    /\ lock' = t
    /\ callers' = [callers EXCEPT ![t].pc = "append"]
    /\ UNCHANGED <<dbVars, jobVars, http, body, req, prompt, responses, arrived, waiter>>

\* self._responses.append({...})
add_response_append(t) ==
    /\ callers[t].pc = "append"
    /\ responses' = Append(responses, callers[t].response)
    /\ arrived' = Append(arrived, callers[t].response)
    /\ callers' = [callers EXCEPT ![t].pc = "trim"]
    /\ UNCHANGED <<dbVars, jobVars, http, body, req, prompt, lock, waiter>>

\* if len(self._responses) > 10: self._responses.pop(0); then the with block
\* ends and releases the lock
add_response_trim(t) ==
    /\ callers[t].pc = "trim"
    /\ responses' = IF Len(responses) > HistoryCap THEN Tail(responses) ELSE responses
    /\ lock' = "free"
    /\ callers' = [callers EXCEPT ![t].pc = "idle"]
    /\ UNCHANGED <<dbVars, jobVars, http, body, req, prompt, arrived, waiter>>

\* clear_all, which runs holding the lock
clear_all ==
    /\ lock = "free"
    /\ prompt' = NoPrompt
    /\ responses' = <<>>
    /\ arrived' = <<>>
    /\ UNCHANGED <<dbVars, jobVars, http, body, req, hubRun>>

\* the store after 9 or 10 adds, the request threads about to add
InitHistory ==
    /\ InitApi
    /\ chat = <<>> /\ tasks = <<>> /\ nextTask = 1
    /\ tick = <<>> /\ legacy = 0 /\ lastClass = NoClass
    /\ fnArgs = NoResult /\ fnOut = NoResult
    /\ prompt = NoPrompt
    /\ \E k \in {9, 10} :
          /\ responses = [i \in 1..k |-> OldResponse]
          /\ arrived = [i \in 1..k |-> OldResponse]
    /\ lock = "free"
    /\ callers = [t \in Adders |-> [pc |-> "idle", response |-> TStr(t)]]
    /\ waiter = NoWaiter

NextHistory ==
    \/ \E t \in Adders : add_response_acquire(t)
    \/ \E t \in Adders : add_response_append(t)
    \/ \E t \in Adders : add_response_trim(t)
    \/ clear_all

SpecHistory == InitHistory /\ [][NextHistory]_vars

\* ------------------------------------- prompt_sender.py: wait_for_response

\* loop iterations that fit into the timeout
MaxPolls == 2

\* status = self.get_status(); initial_count = status.get('response_count', 0);
\* a request failure here is caught by the outer except and None is returned.
\* seen and late are not locals: they record how many responses had been added
\* when the wait started, and whether the last status read came after a later
\* response
wait_start(ok) ==
    /\ waiter.pc = "none"
    /\ waiter' = IF ok
                 THEN [pc |-> "loop", initial_count |-> Len(responses), polls |-> 0,
                       result |-> TNull, seen |-> Len(arrived), late |-> FALSE]
                 ELSE [pc |-> "returned", initial_count |-> 0, polls |-> 0,
                       result |-> TNull, seen |-> Len(arrived), late |-> FALSE]
    /\ UNCHANGED <<dbVars, jobVars, http, body, req, prompt, responses, arrived,
                   lock, callers>>

\* one iteration of the while loop up to the comparison of the counts; a
\* RequestException of get_status is swallowed and the loop goes on
wait_poll(ok) ==
    /\ waiter.pc = "loop"
    /\ waiter.polls < MaxPolls
    /\ waiter' =
          IF ~ok THEN [waiter EXCEPT !.polls = @ + 1]
          ELSE [waiter EXCEPT !.polls = @ + 1,
                              !.late = Len(arrived) > waiter.seen,
                              !.pc = IF Len(responses) > waiter.initial_count
                                     THEN "history" ELSE "loop"]
    /\ UNCHANGED <<dbVars, jobVars, http, body, req, prompt, responses, arrived,
                   lock, callers>>

\* history = self.get_history(); the last entry is returned when there is one
wait_history(ok) ==
    /\ waiter.pc = "history"
    /\ waiter' = IF ok /\ responses # <<>>
                 THEN [waiter EXCEPT !.pc = "returned",
                                     !.result = responses[Len(responses)]]
                 ELSE [waiter EXCEPT !.pc = "loop"]
    /\ UNCHANGED <<dbVars, jobVars, http, body, req, prompt, responses, arrived,
                   lock, callers>>

\* the while condition fails: the timeout is logged and None returned
wait_timeout ==
    /\ waiter.pc = "loop"
    /\ waiter.polls = MaxPolls
    /\ waiter' = [waiter EXCEPT !.pc = "returned"]
    /\ UNCHANGED <<dbVars, jobVars, http, body, req, prompt, responses, arrived,
                   lock, callers>>

\* the userscript delivers a response to /process-response
ResponseArrives ==
    /\ Cardinality({i \in DOMAIN arrived : arrived[i] # OldResponse}) < MaxAdds
    /\ process_response(DefaultTestResponse)
    /\ UNCHANGED req

\* the server after 0, 9 or 10 responses; no wait started yet
InitWait ==
    /\ InitApi
    /\ chat = <<>> /\ tasks = <<>> /\ nextTask = 1
    /\ tick = <<>> /\ legacy = 0 /\ lastClass = NoClass
    /\ fnArgs = NoResult /\ fnOut = NoResult
    /\ prompt = NoPrompt
    /\ \E k \in {0, 9, 10} :
          /\ responses = [i \in 1..k |-> OldResponse]
          /\ arrived = [i \in 1..k |-> OldResponse]
    /\ lock = "free" /\ callers = <<>> /\ waiter = NoWaiter

NextWait ==
    \/ \E ok \in BOOLEAN : wait_start(ok)
    \/ \E ok \in BOOLEAN : wait_poll(ok)
    \/ \E ok \in BOOLEAN : wait_history(ok)
    \/ wait_timeout
    \/ ResponseArrives

SpecWait == InitWait /\ [][NextWait]_vars

\* ------------------------------------------- the routes and the jobs together

\* requests of a client that holds the key
FrameRoutes ==
    \/ Protected([route |-> "POST /messages", key |-> API_KEY_EXPECTED,
                  cid |-> TStr("c1"), text |-> TxtHello],
                 create_message(TStr("c1"), TxtHello))
    \/ Protected([route |-> "POST /webhook", key |-> API_KEY_EXPECTED,
                  cid |-> TStr("c1"), text |-> TxtHello],
                 webhook_ingest(TStr("c1"), TxtHello))
    \/ Protected([route |-> "GET /search", key |-> API_KEY_EXPECTED, q |-> <<"l">>,
                  limit |-> 1],
                 search_messages(<<"l">>, 1))
    \/ Protected([route |-> "POST /contacts", key |-> API_KEY_EXPECTED],
                 create_contact("n"))
    \/ Protected([route |-> "GET /contacts", key |-> API_KEY_EXPECTED], list_contacts)
    \/ \E cid \in {"c1", "c2"} :
          Protected([route |-> "POST /tasks", key |-> API_KEY_EXPECTED, cid |-> cid],
                    create_task(cid))
    \/ Protected([route |-> "GET /tasks", key |-> API_KEY_EXPECTED], list_tasks)
    \/ \E id \in 1..MaxTasks :
          Protected([route |-> "GET /tasks/{task_id}", key |-> API_KEY_EXPECTED,
                     id |-> id],
                    get_task(id))

\* the clients of app.py and one run of each scheduled job at a time; the
\* classifier is not configured, and of the failures of the store only those
\* of an UPDATE and of the commit occur
NextFrame ==
    \/ FrameRoutes
    \/ \E env \in {e \in ClassEnvs : ~e.url}, rows \in Limited(Unclassified, ClassifyLimit) :
          process_new_messages(env, rows, "ok")
    \/ \E rows \in Orders(PendingRows) : SumBegin("w1", "ok", rows)
    \/ \E reply \in TickReplies : SumSummarize("w1", "ok", reply)
    \/ \E upd \in {"ok", "client"} : SumWrite("w1", upd, "ok")
    \/ \E db \in {"ok", "fail"} : SumCommit("w1", db)

SpecFrame == Init /\ [][NextFrame]_vars

\* ---------------------------------------------------- startup and shutdown

\* runs of a scheduled job the scheduler starts before it is shut down
MaxFires == 2

\* the two add_job calls of startup, in the order of the code
StartupJobs == <<"process_new_messages", "process_summary_tasks">>

\* the process before the startup event: no pool, the scheduler constructed and
\* not started.  steps lists the calls made so far, fired the job runs started
BeforeStartup ==
    [op |-> "lifecycle", pc |-> "init_db_pool", scheduler |-> "stopped",
     jobs |-> <<>>, fired |-> <<>>, steps |-> <<>>, raised |-> FALSE]

\* init_db_pool(): a failure is logged and the pool stays None
init_db_pool(ok) ==
    /\ fnOut.pc = "init_db_pool"
    /\ pool' = ok
    /\ fnOut' = [fnOut EXCEPT !.pc = "run_migrations",
                              !.steps = Append(@, "init_db_pool")]
    /\ UNCHANGED <<chat, tasks, nextTask, followups, contacts, searchVector, lastSql,
                   http, body, req, tick, legacy, lastClass,
                   fnArgs, hubVars>>

\* run_migrations(): returns at once without a pool; a failed upgrade is logged
run_migrations(ok) ==
    /\ fnOut.pc = "run_migrations"
    /\ fnOut' = [fnOut EXCEPT !.pc = "scheduler.start",
                              !.steps = Append(@, IF ~pool THEN "run_migrations: no pool"
                                                  ELSE IF ok THEN "run_migrations"
                                                  ELSE "run_migrations: failed")]
    /\ UNCHANGED <<dbVars, http, body, req, tick, legacy, lastClass,
                   fnArgs, hubVars>>

\* scheduler.start() inside the try block: when it raises, the error is logged
\* and no job is registered
scheduler_start(ok) ==
    /\ fnOut.pc = "scheduler.start"
    /\ fnOut' = IF ok
                THEN [fnOut EXCEPT !.pc = "add_job", !.scheduler = "running",
                                   !.steps = Append(@, "scheduler.start")]
                ELSE [fnOut EXCEPT !.pc = "up",
                                   !.steps = Append(@, "scheduler.start: raised")]
    /\ UNCHANGED <<dbVars, http, body, req, tick, legacy, lastClass,
                   fnArgs, hubVars>>

\* scheduler.add_job(...) for the next of the two jobs; when it raises, the
\* rest of the try block is skipped
add_job(ok) ==
    /\ fnOut.pc = "add_job"
    /\ LET job == StartupJobs[Len(fnOut.jobs) + 1]
       IN fnOut' =
             IF ok
             THEN [fnOut EXCEPT
                      !.jobs = Append(@, job),
                      !.steps = Append(@, "add_job " \o job),
                      !.pc = IF Len(fnOut.jobs) + 1 = Len(StartupJobs) THEN "up"
                             ELSE "add_job"]
             ELSE [fnOut EXCEPT !.pc = "up",
                                !.steps = Append(@, "add_job: raised")]
    /\ UNCHANGED <<dbVars, http, body, req, tick, legacy, lastClass,
                   fnArgs, hubVars>>

\* the running scheduler starts a run of a registered job
job_fires(job) ==
    /\ fnOut.scheduler = "running"
    /\ job \in Range(fnOut.jobs)
    /\ Len(fnOut.fired) < MaxFires
    /\ fnOut' = [fnOut EXCEPT !.fired = Append(@, job)]
    /\ UNCHANGED <<dbVars, http, body, req, tick, legacy, lastClass,
                   fnArgs, hubVars>>

\* (variant: shutdown without the try block)
shutdown_unguarded(ok) ==
    /\ fnOut.pc \in {"up", "down"}
    /\ LET raises == fnOut.scheduler # "running" \/ ~ok
       IN fnOut' = [fnOut EXCEPT
                       !.pc = "down",
                       !.scheduler = IF raises THEN @ ELSE "shut down",
                       !.raised = raises,
                       !.steps = IF fnOut.pc = "up" THEN Append(@, "shutdown") ELSE @]
    /\ UNCHANGED <<dbVars, http, body, req, tick, legacy, lastClass,
                   fnArgs, hubVars>>

\* shutdown(): scheduler.shutdown(wait=False) raises SchedulerNotRunningError
\* when the scheduler is not running, and may fail otherwise (ok is FALSE);
\* except Exception: pass
shutdown(ok) ==
    /\ fnOut.pc \in {"up", "down"}
    /\ LET raises == fnOut.scheduler # "running" \/ ~ok
       IN fnOut' = [fnOut EXCEPT
                       !.pc = "down",
                       !.scheduler = IF raises THEN @ ELSE "shut down",
                       !.raised = FALSE,
                       !.steps = IF fnOut.pc = "up" THEN Append(@, "shutdown") ELSE @]
    /\ UNCHANGED <<dbVars, http, body, req, tick, legacy, lastClass,
                   fnArgs, hubVars>>

InitLifecycle ==
    /\ followups = <<>> /\ contacts = <<>> /\ http = 0 /\ body = <<>>
    /\ req = NoReq /\ lastSql = "none" /\ searchVector = TRUE
    /\ pool = FALSE
    /\ InitHub
    /\ chat = <<>> /\ tasks = <<>> /\ nextTask = 1
    /\ tick = <<>> /\ legacy = 0 /\ lastClass = NoClass
    /\ fnArgs = NoResult
    /\ fnOut = BeforeStartup

NextLifecycle ==
    \/ \E ok \in BOOLEAN : init_db_pool(ok)
    \/ \E ok \in BOOLEAN : run_migrations(ok)
    \/ \E ok \in BOOLEAN : scheduler_start(ok)
    \/ \E ok \in BOOLEAN : add_job(ok)
    \/ \E job \in Range(StartupJobs) : job_fires(job)
    \/ \E ok \in BOOLEAN : shutdown(ok)

SpecLifecycle == InitLifecycle /\ [][NextLifecycle]_vars

\* ------------------------------------- the task queue with recurring ticks

\* one run of process_summary_tasks at a time on a database that stays
\* reachable: connections, the SELECT and the commit succeed; the server may
\* still reject the completing UPDATE of a row, or the call may raise before
\* it is sent
JobLive ==
    \/ \E rows \in Orders(PendingRows) : SumBegin("w1", "ok", rows)
    \/ \E reply \in TickReplies : SumSummarize("w1", "ok", reply)
    \/ \E upd \in {"ok", "client", "server"} : SumWrite("w1", upd, "ok")
    \/ SumCommit("w1", "ok")

NextLive ==
    \/ \E c \in Convs : create_task(c) /\ UNCHANGED req
    \/ \E id \in 1..MaxTasks : delete_task(id) /\ UNCHANGED req
    \/ JobLive

\* the scheduler keeps starting the job and a started run goes on
SpecLive == Init /\ [][NextLive]_vars /\ WF_vars(JobLive)

\* ------------------------------------------- the jobs, overlapping and failing

\* a store with one unclassified message and MaxTasks pending tasks
InitAtomic ==
    /\ InitApi /\ InitHub
    /\ chat = <<ChatRow(1, TStr("c1"), TxtHello)>>
    /\ tasks = [id \in 1..MaxTasks |-> TaskRow("c1")]
    /\ nextTask = MaxTasks + 1
    /\ tick = [w \in Workers |-> IdleTick]
    /\ legacy = 0
    /\ lastClass = NoClass
    /\ fnArgs = NoResult
    /\ fnOut = NoResult

\* runs of both jobs that may overlap and fail at any statement, and a client
\* that deletes tasks
NextAtomic ==
    \/ \E id \in 1..MaxTasks : delete_task(id) /\ UNCHANGED req
    \/ \E env \in {e \in ClassEnvs : ~e.url}, rows \in Limited(Unclassified, ClassifyLimit),
          db \in {"ok", "fail"} : process_new_messages(env, rows, db)
    \/ \E w \in Workers, db \in {"ok", "fail"}, rows \in Orders(PendingRows) :
          SumBegin(w, db, rows)
    \/ \E w \in Workers, db \in {"ok", "fail"}, reply \in TickReplies :
          SumSummarize(w, db, reply)
    \/ \E w \in Workers, upd \in {"ok", "client", "server"}, fail \in {"ok", "server"} :
          SumWrite(w, upd, fail)
    \/ \E w \in Workers, db \in {"ok", "fail"} : SumCommit(w, db)

SpecAtomic == InitAtomic /\ [][NextAtomic]_vars

\* ------------------------------------------------------ db() and the pool

\* connections one sequence of operations takes from the pool
MaxConns == 4

\* a db() block that holds a connection: where it is, whether it committed,
\* what its rollback did, and whether an exception leaves it
NewBlock == [pc |-> "body", committed |-> FALSE, rollback |-> "none", raised |-> FALSE]

\* no db() block open; taken and returned count the getconn and putconn calls,
\* failed the getconn calls that raised, last is the block left last
NoBlocks ==
    [op |-> "db", blocks |-> <<>>, taken |-> 0, returned |-> 0, failed |-> 0,
     last |-> NewBlock]

\* the innermost open db() block, and the others
TopBlock == fnOut.blocks[Len(fnOut.blocks)]
OuterBlocks == SubSeq(fnOut.blocks, 1, Len(fnOut.blocks) - 1)

\* conn = pool.getconn() at the start of a db() block.  A route or a job run
\* opens one block; summarize_conversation opens a second one inside the block
\* of process_summary_tasks.  When getconn raises, conn is None: nothing is
\* rolled back or returned, and the exception reaches the caller, where the
\* loop of process_summary_tasks catches it
getconn(ok) ==
    /\ fnOut.taken + fnOut.failed < MaxConns
    /\ Len(fnOut.blocks) < 2
    /\ fnOut.blocks # <<>> => TopBlock.pc = "body"
    /\ fnOut' = IF ok
                THEN [fnOut EXCEPT !.blocks = Append(@, NewBlock), !.taken = @ + 1]
                ELSE [fnOut EXCEPT !.failed = @ + 1]
    /\ UNCHANGED <<dbVars, http, body, req, tick, legacy, lastClass, fnArgs, hubVars>>

\* the body of the with statement ends, normally or with an exception
block_ends(raises) ==
    /\ fnOut.blocks # <<>>
    /\ TopBlock.pc = "body"
    /\ fnOut' = [fnOut EXCEPT !.blocks[Len(fnOut.blocks)].pc =
                                  IF raises THEN "except" ELSE "commit"]
    /\ UNCHANGED <<dbVars, http, body, req, tick, legacy, lastClass, fnArgs, hubVars>>

\* conn.commit() after the yield; its exception is caught by the except clause
conn_commit(ok) ==
    /\ fnOut.blocks # <<>>
    /\ TopBlock.pc = "commit"
    /\ fnOut' = [fnOut EXCEPT !.blocks[Len(fnOut.blocks)] =
                                  [@ EXCEPT !.pc = IF ok THEN "finally" ELSE "except",
                                            !.committed = ok]]
    /\ UNCHANGED <<dbVars, http, body, req, tick, legacy, lastClass, fnArgs, hubVars>>

\* except Exception: conn.rollback(); raise.  When the rollback raises, its
\* exception leaves instead; the finally clause runs either way
conn_rollback(ok) ==
    /\ fnOut.blocks # <<>>
    /\ TopBlock.pc = "except"
    /\ fnOut' = [fnOut EXCEPT !.blocks[Len(fnOut.blocks)] =
                                  [@ EXCEPT !.pc = "finally", !.raised = TRUE,
                                            !.rollback = IF ok THEN "done" ELSE "raised"]]
    /\ UNCHANGED <<dbVars, http, body, req, tick, legacy, lastClass, fnArgs, hubVars>>

\* (variant: the connection goes back only when the block ended normally)
putconn_on_success ==
    /\ fnOut.blocks # <<>>
    /\ TopBlock.pc = "finally"
    /\ fnOut' = [fnOut EXCEPT !.blocks = OuterBlocks,
                              !.last = TopBlock,
                              !.returned = IF TopBlock.raised THEN @ ELSE @ + 1]
    /\ UNCHANGED <<dbVars, http, body, req, tick, legacy, lastClass, fnArgs, hubVars>>

\* finally: pool.putconn(conn); the block is left.  An exception of the inner
\* block is caught by the loop of process_summary_tasks, whose body goes on
putconn ==
    /\ fnOut.blocks # <<>>
    /\ TopBlock.pc = "finally"
    /\ fnOut' = [fnOut EXCEPT !.blocks = OuterBlocks,
                              !.last = TopBlock,
                              !.returned = @ + 1]
    /\ UNCHANGED <<dbVars, http, body, req, tick, legacy, lastClass, fnArgs, hubVars>>

InitPool ==
    /\ InitApi /\ InitHub
    /\ chat = <<>> /\ tasks = <<>> /\ nextTask = 1
    /\ tick = <<>> /\ legacy = 0 /\ lastClass = NoClass
    /\ fnArgs = NoResult
    /\ fnOut = NoBlocks

NextPool ==
    \/ \E ok \in BOOLEAN : getconn(ok)
    \/ \E raises \in BOOLEAN : block_ends(raises)
    \/ \E ok \in BOOLEAN : conn_commit(ok)
    \/ \E ok \in BOOLEAN : conn_rollback(ok)
    \/ putconn

SpecPool == InitPool /\ [][NextPool]_vars

\* ------------------------------------------- threads in the prompt mailbox

\* request threads of server.py: /send-prompt with a prompt of its own each,
\* and /get-prompt
Senders == {"s1", "s2"}
Getters == {"g1", "g2"}

\* InMemoryStore.set_prompt: with self._lock: self._prompt = prompt
set_prompt(t) ==
    /\ callers[t].pc = "send"
    /\ lock = "free"
    /\ prompt' = callers[t].local
    /\ callers' = [callers EXCEPT ![t].pc = "sent"]
    /\ UNCHANGED <<dbVars, jobVars, http, body, req, responses, arrived, lock, waiter>>

\* (variant: pop_prompt without the lock)
pop_prompt_enter_unlocked(t) ==
    /\ callers[t].pc = "idle"
    /\ callers' = [callers EXCEPT ![t].pc = "read"]
    /\ UNCHANGED <<dbVars, jobVars, http, body, req, prompt, responses, arrived, lock,
                   waiter>>

\* InMemoryStore.pop_prompt: with self._lock
pop_prompt_enter(t) ==
    /\ callers[t].pc = "idle"
    /\ lock = "free"
    /\ lock' = t
    /\ callers' = [callers EXCEPT ![t].pc = "read"]
    /\ UNCHANGED <<dbVars, jobVars, http, body, req, prompt, responses, arrived, waiter>>

\* prompt = self._prompt
pop_prompt_read(t) ==
    /\ callers[t].pc = "read"
    /\ callers' = [callers EXCEPT ![t].pc = "clear", ![t].local = prompt]
    /\ UNCHANGED <<dbVars, jobVars, http, body, req, prompt, responses, arrived, lock,
                   waiter>>

\* self._prompt = None
pop_prompt_clear(t) ==
    /\ callers[t].pc = "clear"
    /\ prompt' = NoPrompt
    /\ callers' = [callers EXCEPT ![t].pc = "return"]
    /\ UNCHANGED <<dbVars, jobVars, http, body, req, responses, arrived, lock, waiter>>

\* return prompt, leaving the with block; get_prompt answers {'prompt': ...}.
\* got lists the prompts this thread's requests have answered with
pop_prompt_return(t) ==
    /\ callers[t].pc = "return"
    /\ lock' = IF lock = t THEN "free" ELSE lock
    /\ callers' = [callers EXCEPT
                      ![t].pc = "idle",
                      ![t].local = NoPrompt,
                      ![t].got = IF callers[t].local = NoPrompt THEN @
                                 ELSE Append(@, callers[t].local)]
    /\ UNCHANGED <<dbVars, jobVars, http, body, req, prompt, responses, arrived, waiter>>

InitMailbox ==
    /\ InitApi
    /\ chat = <<>> /\ tasks = <<>> /\ nextTask = 1
    /\ tick = <<>> /\ legacy = 0 /\ lastClass = NoClass
    /\ fnArgs = NoResult /\ fnOut = NoResult
    /\ prompt = NoPrompt /\ responses = <<>> /\ arrived = <<>>
    /\ lock = "free" /\ waiter = NoWaiter
    /\ callers = [t \in Senders \cup Getters |->
                    IF t \in Senders
                    THEN [pc |-> "send", local |-> TStr(t), got |-> <<>>]
                    ELSE [pc |-> "idle", local |-> NoPrompt, got |-> <<>>]]

NextMailbox ==
    \/ \E t \in Senders : set_prompt(t)
    \/ \E t \in Getters : pop_prompt_enter(t)
    \/ \E t \in Getters : pop_prompt_read(t)
    \/ \E t \in Getters : pop_prompt_clear(t)
    \/ \E t \in Getters : pop_prompt_return(t)

SpecMailbox == InitMailbox /\ [][NextMailbox]_vars

\* POST /ack-prompt from the userscript, between the steps of other requests:
\* has_prompt and clear_prompt take the lock one after the other
AckArrives ==
    /\ lock = "free"
    /\ ack_prompt
    /\ UNCHANGED req

\* the steps of the /get-prompt requests
GetPromptSteps ==
    \/ \E t \in Getters : pop_prompt_enter(t)
    \/ \E t \in Getters : pop_prompt_read(t)
    \/ \E t \in Getters : pop_prompt_clear(t)
    \/ \E t \in Getters : pop_prompt_return(t)

NextMailboxFair ==
    \/ \E t \in Senders : set_prompt(t)
    \/ AckArrives
    \/ GetPromptSteps

\* /get-prompt keeps being called and served; /clear is never called
SpecMailboxFair ==
    InitMailbox /\ [][NextMailboxFair]_vars /\ WF_vars(GetPromptSteps)

\* ------------------------------------- create_message, statement by statement

\* no request in progress
NoTx == [op |-> "create_message", pc |-> "idle"]

\* with db() as conn: the INSERT INTO Chat ... RETURNING is executed; row holds
\* the new row inside the transaction, found what detect_followup_tasks returns
create_message_insert(cid, text) ==
    /\ fnOut.pc = "idle"
    /\ Len(chat) < MaxMsgs
    /\ pool
    /\ LET stored == IF TokTruthy(cid) THEN cid ELSE TNull
           found == detect_followup_tasks(text)
       IN fnOut' = [op |-> "create_message",
                    pc |-> IF found = <<>> THEN "commit" ELSE "followup",
                    row |-> ChatRow(Len(chat) + 1, stored, text),
                    found |-> found, rows |-> <<>>]
    /\ UNCHANGED <<dbVars, http, body, req, tick, legacy, lastClass, fnArgs, hubVars>>

\* cur.execute(sql_task, (cid, t)) for the next detected sentence; ok is FALSE
\* when the statement raises, as it always does for a NULL conversation_id
create_message_followup(ok) ==
    /\ fnOut.pc = "followup"
    /\ fnOut.row.conversation_id = TNull => ~ok
    /\ fnOut' =
          IF ~ok THEN [fnOut EXCEPT !.pc = "rollback"]
          ELSE LET rows == Append(fnOut.rows,
                                  FollowupRow(fnOut.row.conversation_id,
                                              fnOut.found[Len(fnOut.rows) + 1]))
               IN [fnOut EXCEPT !.rows = rows,
                                !.pc = IF Len(rows) = Len(fnOut.found) THEN "commit"
                                       ELSE "followup"]
    /\ UNCHANGED <<dbVars, http, body, req, tick, legacy, lastClass, fnArgs, hubVars>>

\* the return statement leaves the with block: db() commits, and the rows of
\* the transaction become stored; a commit that raises is rolled back
create_message_commit(ok) ==
    /\ fnOut.pc = "commit"
    /\ IF ok
       THEN /\ chat' = Append(chat, fnOut.row)
            /\ followups' = followups \o fnOut.rows
            /\ http' = 200
            /\ body' = <<[id |-> fnOut.row.id,
                          conversation_id |-> PyStr(fnOut.row.conversation_id)]>>
            /\ fnOut' = NoTx
       ELSE /\ fnOut' = [fnOut EXCEPT !.pc = "rollback"]
            /\ UNCHANGED <<chat, followups, http, body>>
    /\ UNCHANGED <<tasks, nextTask, contacts, pool, searchVector, lastSql, req, tick,
                   legacy, lastClass, fnArgs, hubVars>>

\* (variant: the message was inserted on a connection in autocommit mode)
create_message_rollback_autocommit ==
    /\ fnOut.pc = "rollback"
    /\ chat' = Append(chat, fnOut.row)
    /\ http' = 500
    /\ body' = <<>>
    /\ fnOut' = NoTx
    /\ UNCHANGED <<tasks, nextTask, followups, contacts, pool, searchVector, lastSql,
                   req, tick, legacy, lastClass, fnArgs, hubVars>>

\* db(): except Exception: conn.rollback(); raise.  Nothing of the transaction
\* is stored and the request is answered 500
create_message_rollback ==
    /\ fnOut.pc = "rollback"
    /\ http' = 500
    /\ body' = <<>>
    /\ fnOut' = NoTx
    /\ UNCHANGED <<dbVars, req, tick, legacy, lastClass, fnArgs, hubVars>>

InitTx ==
    /\ InitApi /\ InitHub
    /\ chat = <<>> /\ tasks = <<>> /\ nextTask = 1
    /\ tick = <<>> /\ legacy = 0 /\ lastClass = NoClass
    /\ fnArgs = NoResult
    /\ fnOut = NoTx

NextTx ==
    \/ \E cid \in {TStr("c1"), TStr("c2"), TNull}, text \in MessageTexts :
          create_message_insert(cid, text)
    \/ \E ok \in BOOLEAN : create_message_followup(ok)
    \/ \E ok \in BOOLEAN : create_message_commit(ok)
    \/ create_message_rollback

SpecTx == InitTx /\ [][NextTx]_vars

\* ------------------------------------- /test-response on a filled history

\* clients of server.py that hold the key: prompts are stored and fetched, and
\* /test-response is requested with every outcome of the upstream call
NextTestResponse ==
    \/ Hub([route |-> "POST /send-prompt", key |-> API_KEY], send_prompt(TStr("p")))
    \/ Hub([route |-> "GET /get-prompt", key |-> API_KEY], get_prompt)
    \/ \E data \in HubPayloads, outcome \in UpstreamOutcomes :
          /\ Cardinality({i \in DOMAIN arrived : arrived[i] # OldResponse}) < MaxAdds
          /\ Hub([route |-> "POST /test-response", key |-> API_KEY, data |-> data,
                  outcome |-> outcome],
                 generate_test_response(data, outcome))

\* the server after 0, 9 or 10 responses
SpecTestResponse == InitWait /\ [][NextTestResponse]_vars

\* ------------------------------------- main.py: the supervisor of both servers

GraceTicks == 2     \* iterations of the grace wait in terminate_group
MaxInterrupts == 2  \* KeyboardInterrupts delivered to the supervisor

Children == <<"api", "svc">>

\* a child is "none" before spawn, then "running", "zombie" once it has exited
\* and "reaped" once a poll() has collected its status (its process group is
\* gone then); "killed" after SIGKILL
BeforeRunBoth ==
    [pc |-> "spawn", cur |-> 1, child |-> [c \in Range(Children) |-> "none"],
     sent |-> {}, waited |-> 0, intr |-> 0, cause |-> {}]

Alive(c) == fnOut.child[c] = "running"

\* spawn(...): the next child is started in a session of its own; after the
\* second one the stream threads are started and the try block is entered
spawn ==
    /\ fnOut.pc = "spawn"
    /\ fnOut' = [fnOut EXCEPT !.child[Children[fnOut.cur]] = "running",
                              !.cur = IF fnOut.cur = 1 THEN 2 ELSE 1,
                              !.pc = IF fnOut.cur = 1 THEN "spawn" ELSE "poll"]
    /\ UNCHANGED <<dbVars, http, body, req, tick, legacy, lastClass,
                   fnArgs, hubVars>>

\* a child process ends by itself, or because of a SIGTERM it received
child_exits(c) ==
    /\ Alive(c)
    /\ fnOut.pc \notin {"returned", "raised"}
    /\ fnOut' = [fnOut EXCEPT !.child[c] = "zombie"]
    /\ UNCHANGED <<dbVars, http, body, req, tick, legacy, lastClass,
                   fnArgs, hubVars>>

\* stream(name, proc): after a line was printed, proc.poll() collects the
\* status of a child that has exited
stream(c) ==
    /\ fnOut.child[c] = "zombie"
    /\ fnOut.pc \notin {"spawn", "returned", "raised"}
    /\ fnOut' = [fnOut EXCEPT !.child[c] = "reaped"]
    /\ UNCHANGED <<dbVars, http, body, req, tick, legacy, lastClass,
                   fnArgs, hubVars>>

\* the loop of run_both: api.poll() is not None or svc.poll() is not None
\* breaks into the finally block; otherwise the loop sleeps and tries again
run_both_poll ==
    /\ fnOut.pc = "poll"
    /\ \E i \in DOMAIN Children :
          /\ fnOut.child[Children[i]] \in {"zombie", "reaped"}
          /\ \A j \in 1..(i - 1) : Alive(Children[j])
          /\ fnOut' = [fnOut EXCEPT !.child[Children[i]] = "reaped",
                                    !.pc = "sigterm", !.cur = 1,
                                    !.cause = @ \cup {"exit"}]
    /\ UNCHANGED <<dbVars, http, body, req, tick, legacy, lastClass,
                   fnArgs, hubVars>>

\* KeyboardInterrupt in the main thread: inside the try block it is caught
\* and the finally block runs; anywhere else it leaves run_both
KeyboardInterrupt ==
    /\ fnOut.pc \notin {"returned", "raised"}
    /\ fnOut.intr < MaxInterrupts
    /\ fnOut' = [fnOut EXCEPT !.intr = @ + 1,
                              !.cause = @ \cup {"interrupt"},
                              !.cur = IF fnOut.pc = "poll" THEN 1 ELSE @,
                              !.pc = IF fnOut.pc = "poll" THEN "sigterm"
                                     ELSE "raised"]
    /\ UNCHANGED <<dbVars, http, body, req, tick, legacy, lastClass,
                   fnArgs, hubVars>>

\* where terminate_group(proc) goes when it is done with proc
AfterTerminate(s) ==
    [s EXCEPT !.waited = 0,
              !.cur = IF s.cur = 1 THEN 2 ELSE 1,
              !.pc = IF s.cur = 1 THEN "sigterm" ELSE "join"]

\* os.killpg(proc.pid, SIGTERM); ProcessLookupError (the group is gone) returns
terminate_group_sigterm ==
    /\ fnOut.pc = "sigterm"
    /\ LET c == Children[fnOut.cur] IN
       fnOut' = IF fnOut.child[c] = "reaped"
                THEN AfterTerminate(fnOut)
                ELSE [fnOut EXCEPT !.sent = @ \cup {<<c, "SIGTERM">>},
                                   !.waited = 0, !.pc = "wait"]
    /\ UNCHANGED <<dbVars, http, body, req, tick, legacy, lastClass,
                   fnArgs, hubVars>>

\* while proc.poll() is None and waited < timeout: sleep; then the second
\* proc.poll() is None decides whether SIGKILL follows
terminate_group_wait ==
    /\ fnOut.pc = "wait"
    /\ LET c == Children[fnOut.cur] IN
       fnOut' = IF ~Alive(c)
                THEN AfterTerminate([fnOut EXCEPT !.child[c] = "reaped"])
                ELSE IF fnOut.waited < GraceTicks
                THEN [fnOut EXCEPT !.waited = @ + 1]
                ELSE [fnOut EXCEPT !.pc = "sigkill"]
    /\ UNCHANGED <<dbVars, http, body, req, tick, legacy, lastClass,
                   fnArgs, hubVars>>

\* os.killpg(proc.pid, SIGKILL): not guarded, so a group that has gone since
\* the poll makes ProcessLookupError leave terminate_group and run_both
terminate_group_sigkill ==
    /\ fnOut.pc = "sigkill"
    /\ LET c == Children[fnOut.cur] IN
       fnOut' = IF fnOut.child[c] = "reaped"
                THEN [fnOut EXCEPT !.pc = "raised"]
                ELSE AfterTerminate(
                       [fnOut EXCEPT !.sent = @ \cup {<<c, "SIGKILL">>},
                                     !.child[c] = "killed"])
    /\ UNCHANGED <<dbVars, http, body, req, tick, legacy, lastClass,
                   fnArgs, hubVars>>

\* t.join(timeout=0.2) for both threads, then run_both returns
run_both_join ==
    /\ fnOut.pc = "join"
    /\ fnOut' = [fnOut EXCEPT !.pc = "returned"]
    /\ UNCHANGED <<dbVars, http, body, req, tick, legacy, lastClass,
                   fnArgs, hubVars>>

InitSupervisor ==
    /\ followups = <<>> /\ contacts = <<>> /\ http = 0 /\ body = <<>>
    /\ req = NoReq /\ lastSql = "none" /\ searchVector = TRUE
    /\ pool = FALSE
    /\ InitHub
    /\ chat = <<>> /\ tasks = <<>> /\ nextTask = 1
    /\ tick = <<>> /\ legacy = 0 /\ lastClass = NoClass
    /\ fnArgs = NoResult
    /\ fnOut = BeforeRunBoth

NextSupervisor ==
    \/ spawn
    \/ \E c \in Range(Children) : child_exits(c)
    \/ \E c \in Range(Children) : stream(c)
    \/ run_both_poll
    \/ KeyboardInterrupt
    \/ terminate_group_sigterm
    \/ terminate_group_wait
    \/ terminate_group_sigkill
    \/ run_both_join

SpecSupervisor == InitSupervisor /\ [][NextSupervisor]_vars

\* ------------------------------------------------------------------ claims

TickIds(w) == {r[1] : r \in Range(tick[w].sel)}

\* C1 (as claimed): once a SummaryTask is completed or failed its status never
\* changes again, whatever create_task, delete_task and job runs interleave.
C1_StatusMonotone ==
    [][\A id \in DOMAIN tasks \cap DOMAIN tasks' :
          tasks[id].status # "pending" => tasks'[id].status = tasks[id].status]_vars

\* C2 (as claimed): an error raised while a run works on one selected task never
\* leaves the run: the loop always goes on to the next task or to the commit.
C2_TaskErrorIsolated ==
    [][\A w \in Workers : tick[w].pc = "write" => tick'[w].pc # "idle"]_vars

ExpectedFallback(m) ==
    IF Len(m) = 1 THEN m[1] ELSE m[1] \o <<" ", ".", ".", ".", " ">> \o m[Len(m)]

ReplyText(reply) ==
    IF Truthy(reply.response) THEN reply.response.s
    ELSE IF Truthy(reply.summary) THEN reply.summary.s
    ELSE reply.answer.s

\* C4: when the summarizer succeeds with text T for a task whose conversation has a
\* message, the run writes the task completed with summary T (whitespace-trimmed),
\* and its commit makes exactly that row the stored task.
C4_SuccessCompletes ==
    [][\A w \in Workers :
          /\ (/\ tick[w].pc = "write"
              /\ tick[w].cur.source = "llm"
              /\ tick'[w].cur.wrote = "completed")
             => LET c == tick'[w].cur
                IN /\ c.msgs # <<>>
                   /\ tick'[w].writes[c.tid].status = "completed"
                   /\ tick'[w].writes[c.tid].summary = JStr(Strip(ReplyText(c.reply)))
          /\ (tick[w].pc = "commit" /\ tick'[w].pc = "idle")
             => \/ tasks' = tasks
                \/ \A id \in DOMAIN tick[w].writes :
                      id \in DOMAIN tasks' /\ tasks'[id] = tick[w].writes[id]]_vars

C4_Witness ==
    /\ \E id \in DOMAIN tasks :
          tasks[id].status = "completed" /\ tasks[id].summary = JStr(TxtOk)
    /\ Len(chat) = 2

\* C6 (as claimed): a run selects only tasks that are pending when it selects, so a
\* completed or failed task is not selected again; it calls the summarizer at most
\* once per selected task, and when the run ends every task it selected has had
\* exactly one summarizer call.
C6_AttemptedExactlyOnce ==
    [][\A w \in Workers :
          /\ (tick[w].pc = "idle" /\ tick'[w].pc # "idle")
             => \A r \in Range(tick'[w].sel) :
                   r[1] \in DOMAIN tasks /\ tasks[r[1]].status = "pending"
          /\ \A id \in DOMAIN tick'[w].calls : tick'[w].calls[id] <= 1
          /\ (tick[w].pc # "idle" /\ tick'[w].pc = "idle")
             => \A id \in DOMAIN tick[w].calls : tick[w].calls[id] = 1]_vars

\* C7: selecting is no claim step: a run that starts leaves summary_tasks as it
\* was and holds no row lock, so a second run that starts before the first has
\* written selects the same pending task and summarizes it too.
C7_SelectClaimsNothing ==
    [][\A w \in Workers :
          (tick[w].pc = "idle" /\ tick'[w].pc # "idle")
          => /\ tasks' = tasks
             /\ tick'[w].writes = <<>>]_vars

C7_Witness ==
    \E id \in DOMAIN tasks :
        /\ tasks[id].status = "pending"
        /\ \A w \in Workers :
              /\ id \in DOMAIN tick[w].calls
              /\ tick[w].calls[id] = 1
              /\ id \notin DOMAIN tick[w].writes

\* the reply gives summarize_messages nothing to use: the call failed, the body is
\* no JSON object, or none of response / summary / answer is a non-empty string
NoUsableSummary(reply) ==
    \/ reply.kind \in {"raise", "badjson", "nondict"}
    \/ /\ reply.kind = "dict"
       /\ \A v \in {reply.response, reply.summary, reply.answer} :
             v.t # "str" \/ v.s = <<>>

\* C5: for an ordered message list L, when the LLM call raises or returns no usable
\* response / summary / answer member, summarize_messages returns L[0] when
\* |L| = 1 and L[0] + " ... " + L[last] when |L| >= 2; for the empty list it
\* returns the empty string without calling the LLM.
C5_SummarizerFallback ==
    fnOut.op = "summarize" =>
        LET L == fnArgs.messages
        IN /\ L = <<>> => fnOut.value = <<>> /\ ~fnOut.called
           /\ (L # <<>> /\ NoUsableSummary(fnArgs.reply)) =>
                 /\ fnOut.called
                 /\ Len(L) = 1 => fnOut.value = L[1]
                 /\ Len(L) >= 2 =>
                       fnOut.value = L[1] \o <<" ", ".", ".", ".", " ">> \o L[Len(L)]

C5_Witness ==
    /\ fnOut.op = "summarize"
    /\ fnArgs.messages = <<TxtHello, TxtHowAreYou, TxtBye>>
    /\ fnArgs.reply.kind = "raise"
    /\ fnOut.value = TxtHello \o Ellipsis \o TxtBye

\* both labels are non-empty strings
BothLabels(i, s) == i.t = "str" /\ i.s # "" /\ s.t = "str" /\ s.s # ""

\* the embedded JSON text v carries both labels
EmbeddedLabels(v) ==
    /\ v.t = "str" /\ v.s # ""
    /\ LET parsed == JsonLoads(v.s)
       IN parsed.kind = "dict" /\ BothLabels(parsed.intent, parsed.sentiment)

\* the remote LLM is not configured, the call failed, or the reply carries the two
\* labels neither directly nor in its embedded response / answer text
RemoteUnusable(a) ==
    \/ ~a.url \/ ~a.key
    \/ a.reply.kind \in {"raise", "status", "badjson", "nondict"}
    \/ /\ a.reply.kind = "dict"
       /\ ~BothLabels(a.reply.intent, a.reply.sentiment)
       /\ ~EmbeddedLabels(a.reply.response)
       /\ ~EmbeddedLabels(a.reply.answer)

\* C10: categorize_message never raises, and whenever the remote LLM is not
\* configured, the call fails or the reply lacks intent or sentiment, it returns
\* exactly the local-heuristic labels of the same text.
C10_ClassifierFallback ==
    fnOut.op = "categorize" =>
        /\ ~fnOut.raised
        /\ RemoteUnusable(fnArgs) =>
              /\ fnOut.intent = Heuristic(fnArgs.text).intent
              /\ fnOut.sentiment = Heuristic(fnArgs.text).sentiment

C10_Witness ==
    /\ fnOut.op = "categorize"
    /\ fnArgs.url /\ fnArgs.key
    /\ fnArgs.reply.kind = "badjson"
    /\ fnArgs.text = TxtPleaseFix
    /\ fnOut.intent = "task" /\ fnOut.sentiment = "neutral"
    /\ fnOut.called

\* a step of process_new_messages (create_message is the step that adds a row)
ClassifyStep == Len(chat') = Len(chat) /\ (chat' # chat \/ lastClass' # lastClass)

\* C8: a run of process_new_messages that follows a committed run with no message
\* inserted in between fetches none of the rows the first run classified and
\* leaves each of them unchanged.
C8_ClassifyIdempotent ==
    [][(ClassifyStep /\ lastClass.ok /\ lastClass.len = Len(chat))
       => \A i \in lastClass.sel :
             /\ i \notin lastClass'.sel
             /\ chat'[i] = chat[i]]_vars

\* after the run that classified the one row a full batch had left over
C8_Witness ==
    /\ lastClass.ok
    /\ lastClass.len = ClassifyLimit + 1
    /\ \E i \in 1..LegacyRows : lastClass.sel = {i}
    /\ Unclassified = {}

\* C9: a run of process_new_messages fetches at most 50 rows, each with intent or
\* sentiment NULL when fetched; a committed run gives every fetched row a non-null
\* intent and sentiment and category equal to the intent, and changes no other
\* row; a run that fails changes no row.
C9_ClassifyBatch ==
    [][ClassifyStep
       => IF lastClass'.ok
          THEN LET sel == lastClass'.sel
               IN /\ Cardinality(sel) <= 50
                  /\ \A i \in sel :
                        /\ chat[i].intent = TNull \/ chat[i].sentiment = TNull
                        /\ chat'[i].intent.t = "str" /\ chat'[i].intent.s # ""
                        /\ chat'[i].sentiment.t = "str" /\ chat'[i].sentiment.s # ""
                        /\ chat'[i].category = chat'[i].intent
                        /\ chat'[i].message = chat[i].message
                  /\ \A i \in DOMAIN chat \ sel : chat'[i] = chat[i]
          ELSE chat' = chat]_vars

\* a committed run took a full batch of 50 and left one unclassified row behind
C9_Witness ==
    /\ lastClass.ok
    /\ Cardinality(lastClass.sel) = 50
    /\ lastClass.len = 51
    /\ Cardinality(Unclassified) = 1
    /\ \A i \in lastClass.sel : chat[i].category = chat[i].intent /\ chat[i].intent # TNull

\* the task keywords the claim lists
C11_TaskKeywords ==
    { <<"p","l","e","a","s","e">>, <<"c","a","n"," ","y","o","u">>,
      <<"c","o","u","l","d"," ","y","o","u">>, <<"t","o","d","o">>,
      <<"k","i","n","d","l","y">>, <<"f","o","l","l","o","w"," ","u","p">> }

\* w occurs in s, compared without regard to case
OccursIgnoringCase(w, s) ==
    \E i \in 1..(Len(s) - Len(w) + 1) :
        \A j \in 1..Len(w) : LowerChar(s[i + j - 1]) = LowerChar(w[j])

\* C11: without a remote LLM, intent is question if the text contains '?', else
\* task if the lower-cased text contains one of please / can you / could you /
\* todo / kindly / follow up, else statement; sentiment is positive (negative) if
\* the text contains, case-insensitively, a word of the positive (negative) list
\* and none of the other list, one of the two if it contains words of both, and
\* neutral if it contains none.
C11_HeuristicLabels ==
    fnOut.op = "categorize" /\ ~(fnArgs.url /\ fnArgs.key) =>
        LET text == fnArgs.text
            pos == \E w \in positive_words : OccursIgnoringCase(w, text)
            neg == \E w \in negative_words : OccursIgnoringCase(w, text)
        IN /\ fnOut.intent =
                 IF \E i \in DOMAIN text : text[i] = "?" THEN "question"
                 ELSE IF \E k \in C11_TaskKeywords : OccursIgnoringCase(k, text)
                      THEN "task"
                 ELSE "statement"
           /\ (pos /\ ~neg) => fnOut.sentiment = "positive"
           /\ (neg /\ ~pos) => fnOut.sentiment = "negative"
           /\ (pos /\ neg) => fnOut.sentiment \in {"positive", "negative"}
           /\ (~pos /\ ~neg) => fnOut.sentiment = "neutral"

\* an upper-case keyword makes the message a task, an upper-case word makes it negative
C11_Witness ==
    /\ fnOut.op = "categorize"
    /\ ~fnArgs.key
    /\ fnArgs.text = <<"f","i","n","e">> \o <<" ">> \o <<"C","A","N"," ","Y","O","U">>
                     \o <<" ">> \o <<"S","a","d">>
    /\ fnOut.intent = "task" /\ fnOut.sentiment = "negative"

\* C12 (as claimed): every message the Classification Job has classified has
\* intent in {question, task, statement} and sentiment in {positive, negative,
\* neutral}, whether the labels came from the remote LLM or from the heuristic.
C12_LabelsInDomain ==
    \A i \in DOMAIN chat :
        /\ chat[i].intent # TNull => chat[i].intent.s \in {"question", "task", "statement"}
        /\ chat[i].sentiment # TNull =>
              chat[i].sentiment.s \in {"positive", "negative", "neutral"}

\* the keywords the claim lists
C14_Keywords ==
    { <<"t","o","d","o">>, <<"p","l","e","a","s","e">>, <<"c","a","n"," ","y","o","u">>,
      <<"c","o","u","l","d"," ","y","o","u">>, <<"f","o","l","l","o","w"," ","u","p">>,
      <<"f","o","l","l","o","w","-","u","p">>, <<"r","e","m","i","n","d">>,
      <<"n","e","e","d"," ","t","o">> }

\* the segments of text: the maximal stretches <<i, j>> free of newline . ! ?
Segments(text) ==
    {ij \in (DOMAIN text) \X (DOMAIN text) :
        /\ ij[1] <= ij[2]
        /\ \A k \in ij[1]..ij[2] : text[k] \notin {"\n", ".", "!", "?"}
        /\ ij[1] = 1 \/ text[ij[1] - 1] \in {"\n", ".", "!", "?"}
        /\ ij[2] = Len(text) \/ text[ij[2] + 1] \in {"\n", ".", "!", "?"}}

\* the segment with its leading and trailing whitespace removed
Trimmed(text, ij) ==
    LET inner == {k \in ij[1]..ij[2] : text[k] \notin Whitespace}
    IN IF inner = {} THEN <<>>
       ELSE SubSeq(text, CHOOSE a \in inner : \A b \in inner : a <= b,
                         CHOOSE a \in inner : \A b \in inner : a >= b)

\* the segments that are tasks
TaskSegments(text) ==
    {ij \in Segments(text) :
        \E w \in C14_Keywords : OccursIgnoringCase(w, Trimmed(text, ij))}

\* C14: detect_followup_tasks returns, in the order they occur, exactly the trimmed
\* segments between runs of newline, '.', '!' and '?' that are non-empty and contain
\* (case-insensitively) one of todo / please / can you / could you / follow up /
\* follow-up / remind / need to; for empty or whitespace-only text it returns none.
C14_FollowupSegments ==
    fnOut.op = "followup" =>
        LET text == fnArgs.text
            T == TaskSegments(text)
        IN /\ Len(fnOut.tasks) = Cardinality(T)
           /\ \A ij \in T :
                 fnOut.tasks[Cardinality({q \in T : q[1] <= ij[1]})] = Trimmed(text, ij)
           /\ (\A k \in DOMAIN text : text[k] \in Whitespace) => fnOut.tasks = <<>>

\* two tasks out of four pieces, the second one trimmed
C14_Witness ==
    /\ fnOut.op = "followup"
    /\ fnArgs.text = <<"T","o","d","o">> \o <<"?","!">> \o <<" ">>
                     \o <<"n","e","e","d"," ","t","o">>
    /\ fnOut.tasks = << <<"T","o","d","o">>, <<"n","e","e","d"," ","t","o">> >>

\* C13: a step that persists a message (POST /messages or POST /webhook) adds,
\* in that same step, exactly one followup_tasks row per sentence that
\* detect_followup_tasks returns for the message text, in order, each with the
\* conversation_id of the persisted message and status pending; when no sentence
\* is extracted no row is added, and no other step adds a row.
C13_FollowupPerSentence ==
    [][IF Len(chat') = Len(chat) + 1
       THEN LET m == chat'[Len(chat')]
                found == detect_followup_tasks(m.message)
            IN followups' = followups \o
                   [i \in DOMAIN found |->
                       [conversation_id |-> m.conversation_id,
                        task |-> found[i],
                        status |-> "pending"]]
       ELSE followups' = followups]_vars

\* a webhook message with two task sentences was stored after a message with
\* none, and the two rows are there
C13_Witness ==
    /\ req.route = "POST /webhook"
    /\ http = 200
    /\ Len(chat) = 2
    /\ chat[1].message = TxtHello
    /\ chat[2].message = TxtTwoTasks
    /\ Len(followups) = 2

\* C15: when the last request read conversation C and C holds n messages, n not
\* above the limit of the read, the response is exactly those n messages, the
\* k-th of the response being the k-th created.
C15_ConversationInOrder ==
    (req.route = "GET /conversations" /\ http = 200) =>
        LET inC == {i \in DOMAIN chat :
                       chat[i].conversation_id = TStr(req.conversation_id)}
        IN Cardinality(inC) <= req.limit =>
              /\ Len(body) = Cardinality(inC)
              /\ \A i \in inC : body[Cardinality({j \in inC : j <= i})] = chat[i]

\* a conversation of two different messages was read back in full
C15_Witness ==
    /\ req.route = "GET /conversations"
    /\ http = 200
    /\ Len(body) = 2
    /\ body[1].message # body[2].message

\* C16: a search that is answered was answered by the indexed full-text query
\* (search_vector @@ to_tsquery) when column search_vector exists, and by the
\* case-insensitive substring scan (ILIKE) when it does not.
C16_SearchPathSelection ==
    (req.route = "GET /search" /\ http = 200) =>
        lastSql = IF searchVector THEN "search_vector @@ to_tsquery" ELSE "ILIKE"

\* C17: the response of GET /search with query q and limit L holds at most L
\* rows, each with a message that contains q ignoring case, the most recently
\* created first, and when it holds fewer than L rows it holds every stored
\* message that contains q ignoring case.
C17_SearchSubstring ==
    (req.route = "GET /search" /\ http = 200) =>
        /\ Len(body) <= req.limit
        /\ \A k \in DOMAIN body : OccursIgnoringCase(req.q, body[k].message)
        /\ \A k, l \in DOMAIN body : k < l => body[k].id > body[l].id
        /\ Len(body) < req.limit =>
              \A i \in DOMAIN chat :
                  OccursIgnoringCase(req.q, chat[i].message) =>
                      \E k \in DOMAIN body : body[k] = chat[i]

\* C18: every request to a protected route (all routes of app.py but /health,
\* all routes of server.py) whose key header is missing or differs from the
\* server's secret is answered 401, and the message store, the followup rows,
\* the task queue, the contacts, the stored prompt and the response history are
\* as they were before it.
C18_UnauthorizedRejected ==
    [][(/\ req'.route # "GET /health"
        /\ req'.key # (IF req'.server = "app.py" THEN API_KEY_EXPECTED ELSE API_KEY))
       => /\ http' = 401
          /\ UNCHANGED <<chat, followups, tasks, contacts, prompt, responses>>]_vars

\* the routes of app.py whose handler enters db()
StoreRoutes ==
    {"POST /messages", "POST /webhook", "POST /suggestions", "GET /search",
     "POST /contacts", "GET /contacts", "GET /conversations", "POST /tasks",
     "GET /tasks", "GET /tasks/{task_id}", "DELETE /tasks/{task_id}"}

\* C19: while the pool is missing, every request with the valid key to a route
\* that uses the store (messages, webhook, suggestions, search, contacts,
\* conversations, tasks) is answered 503 and changes no store; the routes that
\* use no store still answer as usual, so the service keeps answering.
C19_PoolMissing ==
    [][~pool =>
          /\ ~pool'
          /\ req'.route \in StoreRoutes =>
                /\ http' = 503
                /\ UNCHANGED <<chat, followups, tasks, contacts>>
          /\ req'.route = "GET /health" => http' = 200]_vars

\* without a pool, a task was asked for and the request refused with 503
C19_Witness ==
    /\ ~pool
    /\ req.route = "GET /tasks/{task_id}"
    /\ http = 503

\* C20: a GET /tasks/{task_id} or DELETE /tasks/{task_id} that reaches the
\* store with an id no task has is answered 404 (NotFound) and leaves the task
\* queue as it was.
C20_MissingTaskNotFound ==
    [][(/\ req'.route \in {"GET /tasks/{task_id}", "DELETE /tasks/{task_id}"}
        /\ pool
        /\ req'.id \notin DOMAIN tasks)
       => http' = 404 /\ tasks' = tasks]_vars

\* C21: the message a POST /messages or POST /webhook stores has a non-null
\* conversation_id: the one the request supplies, stored unchanged, or else a
\* newly generated one; and the response returns the conversation_id stored.
C21_ConversationAssigned ==
    [][Len(chat') = Len(chat) + 1 =>
          LET m == chat'[Len(chat')]
          IN /\ m.conversation_id # TNull
             /\ TokTruthy(req'.cid) => m.conversation_id = req'.cid
             /\ body'[1].conversation_id = m.conversation_id]_vars

\* C22: in every adapter _forward makes at most 3 POST attempts for a message;
\* each attempt but the first follows an attempt that raised; when all 3 raise
\* it has made exactly 3 attempts, logged the first 2 failures at WARNING and
\* the last once at ERROR, and it returns (it never raises).
C22_ForwardRetries ==
    /\ fnOut.attempts <= 3
    /\ \A k \in 1..(fnOut.attempts - 1) : fnArgs.outcomes[k] = "raises"
    /\ fnOut.pc = "returned" =>
          /\ fnOut.attempts >= 1
          /\ (\A k \in 1..3 : fnArgs.outcomes[k] = "raises") =>
                /\ fnOut.attempts = 3
                /\ fnOut.log = <<"WARNING", "WARNING", "ERROR " \o fnArgs.adapter>>
          /\ (\E k \in 1..3 : fnArgs.outcomes[k] # "raises") =>
                fnArgs.outcomes[fnOut.attempts] # "raises"

\* the Outlook adapter returned after three attempts that all raised
C22_Witness ==
    /\ fnArgs.op = "forward" /\ fnArgs.adapter = "Outlook"
    /\ fnOut.pc = "returned"
    /\ fnOut.attempts = 3
    /\ fnArgs.outcomes[3] = "raises"

\* C23: whatever the interleaving of the threads inside add_response, whenever
\* the store can be read (its lock is free) the history holds at most 10
\* entries: with n responses added since the last clear, exactly the min(n, 10)
\* added last, in the order they were added.
C23_HistoryBounded ==
    lock = "free" =>
        LET n == Len(arrived)
            kept == IF n < 10 THEN n ELSE 10
        IN /\ Len(responses) <= 10
           /\ responses = SubSeq(arrived, n - kept + 1, n)

\* twelve responses were added, the last two by different threads, and the
\* oldest two are gone
C23_Witness ==
    /\ lock = "free"
    /\ Len(arrived) = 12
    /\ arrived[11] # arrived[12]
    /\ Len(responses) = 10
    /\ responses[10] = arrived[12]

\* C24: when wait_for_response has returned, it returned None only if no new
\* response had reached the server between the start of the wait and its last
\* look at the server, and a response text otherwise, whatever the history held
\* when the wait started (10 responses included).
C24_WaitReturnsResponse ==
    waiter.pc = "returned" => (waiter.result = TNull <=> ~waiter.late)

\* the upstream failures of /test-response
UpstreamFailures == UpstreamOutcomes \ {"ok"}

\* the last request was an authorized /test-response with a prompt whose
\* upstream call failed
TestResponseFailed(r) ==
    IF r.route # "POST /test-response" THEN FALSE
    ELSE /\ check_api_key(r.key) = 0
         /\ r.data # TAbsent
         /\ r.outcome \in UpstreamFailures

\* C25: an authorized POST /test-response whose upstream call timed out, failed,
\* returned invalid JSON, returned an empty reply, or was not configured is
\* answered with 504, 502, 502, 502, 500, with an error member and without
\* status 'success', and stores nothing; the replies to two different failures
\* differ; and the request after a failed one is answered with an HTTP status.
C25_UpstreamFailureReported ==
    [][/\ TestResponseFailed(req') =>
             /\ http' = CASE req'.outcome = "timeout" -> 504
                          [] req'.outcome = "unconfigured" -> 500
                          [] OTHER -> 502
             /\ body'[1].error # TAbsent
             /\ body'[1].status # TStr("success")
             /\ responses' = responses
             /\ \A other \in UpstreamFailures \ {req'.outcome} :
                   TestResponseReplies(req'.data, other)
                      \cap TestResponseReplies(req'.data, req'.outcome) = {}
       /\ TestResponseFailed(req) => http' \in {200, 400, 401, 500, 502, 504}
      ]_vars

\* witness for C25: a timed-out upstream call was answered with 504
C25_Witness ==
    /\ TestResponseFailed(req)
    /\ req.outcome = "timeout"
    /\ http = 504

\* C26: no error response of either server carries the text of an internal
\* exception: a response with status 400 or above holds at most a fixed error
\* kind.
C26_NoExceptionText ==
    (http >= 400 /\ body # <<>>) => body[1].details = TAbsent

\* C27: a POST /tasks that stores a task adds exactly one row, pending and with
\* a null summary, for the conversation it names (with or without messages),
\* leaves every other task and the summarizer's state alone; and an existing
\* task changes only in the step in which process_summary_tasks commits, never
\* in a step of create_message, the webhook, the classification job, search,
\* contacts, or the reading of tasks.
C27_CreateTaskOnlyEnqueues ==
    [][/\ nextTask' # nextTask =>
             /\ nextTask \notin DOMAIN tasks
             /\ DOMAIN tasks' = DOMAIN tasks \cup {nextTask}
             /\ tasks'[nextTask] =
                   [conversation_id |-> req'.cid, status |-> "pending", summary |-> Null]
             /\ \A id \in DOMAIN tasks : tasks'[id] = tasks[id]
             /\ UNCHANGED <<tick, fnArgs, fnOut, chat>>
       /\ (\E id \in DOMAIN tasks \cap DOMAIN tasks' : tasks'[id] # tasks[id]) =>
             /\ tick["w1"].pc = "commit"
             /\ tick'["w1"].pc = "idle"
             /\ UNCHANGED <<req, chat, contacts, nextTask>>
      ]_vars

\* witness for C27: a task was just created for a conversation without messages
\* while an earlier task has been completed by the job
C27_Witness ==
    /\ req.route = "POST /tasks"
    /\ http = 200
    /\ ConversationTexts(chat, "c2") = <<>>
    /\ \E id \in DOMAIN tasks :
          /\ tasks[id] = [conversation_id |-> "c2", status |-> "pending", summary |-> Null]
          /\ \E other \in DOMAIN tasks : tasks[other].status = "completed"

\* the calls of a startup in which nothing raises
StartupOrder ==
    <<"init_db_pool", "run_migrations", "scheduler.start",
      "add_job process_new_messages", "add_job process_summary_tasks">>

\* the call a step stands for, whatever its outcome
StepCall(step) ==
    IF step \in {"run_migrations: no pool", "run_migrations: failed"}
    THEN "run_migrations"
    ELSE IF step = "scheduler.start: raised" THEN "scheduler.start"
    ELSE step

\* C28: the calls of startup are made in the order init_db_pool,
\* run_migrations, scheduler.start, add_job for process_new_messages, add_job
\* for process_summary_tasks (a raising scheduler call ends the sequence early),
\* no job runs before it is registered with a started scheduler, and shutdown
\* never raises: not with a running scheduler, not with one that never started
\* or is already shut down, and not when scheduler.shutdown fails.
C28_StartupOrder ==
    fnOut.op = "lifecycle" =>
       /\ LET calls == SelectSeq(fnOut.steps,
                                 LAMBDA s : s \notin {"shutdown", "add_job: raised"})
          IN /\ Len(calls) <= Len(StartupOrder)
             /\ \A i \in DOMAIN calls : StepCall(calls[i]) = StartupOrder[i]
       /\ \A i \in DOMAIN fnOut.fired :
             /\ "scheduler.start" \in Range(fnOut.steps)
             /\ ("add_job " \o fnOut.fired[i]) \in Range(fnOut.steps)
       /\ ~fnOut.raised

\* witness for C28: startup made its five calls in order, a job has run, and
\* shutdown has stopped the scheduler and returned
C28_Witness ==
    /\ fnOut.op = "lifecycle"
    /\ fnOut.pc = "down"
    /\ fnOut.scheduler = "shut down"
    /\ fnOut.jobs = StartupJobs
    /\ fnOut.steps = StartupOrder \o <<"shutdown">>
    /\ fnOut.fired # <<>>

\* C29: with a reachable database and recurring ticks every pending task is
\* eventually completed, failed or deleted; and when a run commits, none of the
\* tasks it selected is still pending.
C29_PendingResolved ==
    /\ \A id \in 1..MaxTasks :
          (id \in DOMAIN tasks /\ tasks[id].status = "pending")
             ~> (id \notin DOMAIN tasks \/ tasks[id].status \in {"completed", "failed"})
    /\ [][(tick["w1"].pc = "commit" /\ tick'["w1"].pc = "idle") =>
             \A r \in Range(tick["w1"].sel) :
                r[1] \in DOMAIN tasks' => tasks'[r[1]].status # "pending"]_vars

\* C30: a run of process_new_messages that commits lowers the number of
\* unclassified messages by min(50, remaining); when at most 50 were left, every
\* message has a non-null intent and sentiment afterwards, so a backlog of M
\* messages is classified after ceil(M/50) committed runs.
C30_BacklogDrops ==
    [][(lastClass' # lastClass /\ lastClass'.ok) =>
          LET before == Cardinality(Unclassified)
              after == Cardinality({i \in DOMAIN chat' :
                                       \/ chat'[i].intent = TNull
                                       \/ chat'[i].sentiment = TNull})
          IN /\ after = before - (IF before < 50 THEN before ELSE 50)
             /\ before <= 50 =>
                   \A i \in DOMAIN chat' : /\ chat'[i].intent # TNull
                                           /\ chat'[i].sentiment # TNull
      ]_vars

\* witness for C30: a committed run found 51 unclassified messages, classified
\* 50 of them and left one
C30_Witness ==
    /\ Len(chat) = 50 + 1
    /\ lastClass.ok
    /\ lastClass.len = 50 + 1
    /\ Cardinality(lastClass.sel) = 50
    /\ Cardinality(Unclassified) = 1

\* this step ends run w of process_summary_tasks with an exception: db() has
\* rolled the transaction back
TickEscapes(w) ==
    /\ tick[w].pc # "idle"
    /\ tick'[w] = IdleTick
    /\ ~(tick[w].pc = "commit" /\ tasks' # tasks)
    /\ ~SumCommit(w, "ok")

\* this step stores what run w wrote, and only that
TickCommits(w) ==
    /\ tick[w].pc = "commit"
    /\ tick'[w] = IdleTick
    /\ \A id \in DOMAIN tasks :
          tasks'[id] = IF id \in DOMAIN tick[w].writes THEN tick[w].writes[id]
                       ELSE tasks[id]

\* a run of either job changes stored rows in one step, the commit of its
\* transaction, and a run that ends with an exception changes none
OneTransaction ==
    /\ \A w \in Workers : TickEscapes(w) => UNCHANGED <<tasks, chat>>
    /\ (DOMAIN tasks' = DOMAIN tasks /\ tasks' # tasks) =>
          \E w \in Workers : TickCommits(w)
    /\ (lastClass' # lastClass /\ ~lastClass'.ok) => UNCHANGED <<tasks, chat>>
    /\ chat' # chat => lastClass'.ok /\ lastClass'.sel # {}

\* C31 (as stated): the updates of one run of process_summary_tasks, and of one
\* run of process_new_messages, are stored together when the run ends; a run an
\* error escapes from stores none of them, and every task it selected is still
\* pending afterwards.
C31_TickAtomic ==
    [][/\ OneTransaction
       /\ \A w \in Workers :
             TickEscapes(w) =>
                \A r \in Range(tick[w].sel) :
                   r[1] \in DOMAIN tasks' /\ tasks'[r[1]].status = "pending"
      ]_vars

\* C31 (amended): the updates of one run of either job are stored together
\* when the run ends; a run an error escapes from stores none of them, so every
\* task it selected is afterwards as the other transactions left it: pending
\* unless an overlapping run committed it or a client deleted it.
C31_TickAtomicAmended ==
    [][/\ OneTransaction
       /\ \A w \in Workers :
             TickEscapes(w) =>
                \A r \in Range(tick[w].sel) :
                   r[1] \in DOMAIN tasks => tasks'[r[1]] = tasks[r[1]]
      ]_vars

\* witness for C31: a run has updated a task it selected and not committed, the
\* stored row is still pending, and a classification run has been rolled back
C31_Witness ==
    /\ \E w \in Workers :
          /\ tick[w].pc = "commit"
          /\ tick[w].writes # <<>>
          /\ \A id \in DOMAIN tick[w].writes :
                id \in DOMAIN tasks /\ tasks[id].status = "pending"
    /\ lastClass # NoClass
    /\ ~lastClass.ok
    /\ Unclassified # {}

\* connections checked out of the pool
CheckedOut == fnOut.taken - fnOut.returned

\* C32: every connection db() takes is returned exactly once when its block
\* ends, after the commit or after the rollback of an exception, which then
\* leaves the block: the number checked out is the number of open blocks, it is
\* zero whenever no operation is in progress, a block that was left had
\* committed or had run its rollback and raised, and a run of
\* process_summary_tasks, with the nested block of summarize_conversation,
\* holds at most 2.
C32_ConnectionsConserved ==
    fnOut.op = "db" =>
       /\ CheckedOut = Len(fnOut.blocks)
       /\ fnOut.blocks = <<>> => CheckedOut = 0
       /\ CheckedOut <= 2
       /\ fnOut.returned > 0 =>
             \/ fnOut.last.committed /\ ~fnOut.last.raised /\ fnOut.last.rollback = "none"
             \/ ~fnOut.last.committed /\ fnOut.last.raised /\ fnOut.last.rollback # "none"

\* witness for C32: every connection taken is back, the last one from a block
\* whose commit failed and whose rollback raised
C32_Witness ==
    /\ fnOut.op = "db"
    /\ fnOut.blocks = <<>>
    /\ fnOut.taken = MaxConns
    /\ fnOut.returned = MaxConns
    /\ fnOut.last.rollback = "raised"

\* the /get-prompt answers that carried prompt p
Deliveries(p) ==
    {<<t, i>> \in Getters \X (1..Cardinality(Senders) * Cardinality(Getters)) :
        i <= Len(callers[t].got) /\ callers[t].got[i] = p}

\* C33: however concurrent /get-prompt requests interleave, the prompt of one
\* /send-prompt is answered to at most one /get-prompt caller, and when it is
\* answered the store holds no prompt; the store then stays empty until a
\* /send-prompt stores the next one.
C33_PromptDeliveredOnce ==
    /\ [](\A s \in Senders : Cardinality(Deliveries(TStr(s))) <= 1)
    /\ [][/\ \A t \in Getters :
                callers'[t].got # callers[t].got => prompt' = NoPrompt
          /\ (prompt = NoPrompt /\ prompt' # NoPrompt) =>
                \E s \in Senders : callers[s].pc = "send" /\ callers'[s].pc = "sent"
         ]_vars

\* witness for C33: both prompts were stored, each was answered to exactly one
\* caller and each caller has answered one, and the store is empty
C33_Witness ==
    /\ \A s \in Senders : Cardinality(Deliveries(TStr(s))) = 1
    /\ callers["g1"].got # <<>>
    /\ callers["g2"].got # <<>>
    /\ prompt = NoPrompt

\* C34: every prompt a /send-prompt accepted is eventually answered by some
\* /get-prompt, given that /get-prompt keeps being called and /clear is not,
\* also when another /send-prompt or an /ack-prompt arrives before it is
\* fetched.
C34_NoPromptLost ==
    \A s \in Senders : (callers[s].pc = "sent") ~> (Deliveries(TStr(s)) # {})

\* the followup_tasks rows message m brings with it
FollowupsOf(m) ==
    LET found == detect_followup_tasks(m.message)
    IN [i \in DOMAIN found |-> FollowupRow(m.conversation_id, found[i])]

\* C35: a POST /messages stores its message and all of its followup_tasks rows,
\* or nothing: the stored followup_tasks rows are exactly those of the stored
\* messages, in order, and a request in which an INSERT into followup_tasks (or
\* the commit) failed is answered 500 and stores neither the message nor any
\* row.
C35_MessageAtomic ==
    /\ [](followups = Concat([i \in DOMAIN chat |-> FollowupsOf(chat[i])]))
    /\ [][(fnOut.op = "create_message" /\ fnOut.pc = "rollback" /\ fnOut'.pc = "idle") =>
             /\ http' = 500
             /\ UNCHANGED <<chat, followups>>
         ]_vars

\* witness for C35: a message with two followup sentences is stored with both
\* rows, and the request after it failed at its second INSERT into
\* followup_tasks, leaving the store as it was
C35_Witness ==
    /\ fnOut.op = "create_message"
    /\ fnOut.pc = "rollback"
    /\ Len(fnOut.rows) = 1
    /\ Len(chat) = 1
    /\ Len(followups) = 2

\* C36: in every adapter a POST that returns a response with a status outside
\* 2xx is followed by no further attempt; when the first POST does, _forward
\* has made exactly one attempt when it returns, has logged one ERROR and no
\* WARNING, and it returns rather than raises.
C36_NonSuccessNotRetried ==
    fnArgs.op = "forward" =>
       /\ \A k \in 1..fnOut.attempts :
             fnArgs.outcomes[k] = "non-2xx" => fnOut.attempts = k
       /\ (fnArgs.outcomes[1] = "non-2xx" /\ fnOut.attempts >= 1) =>
             /\ fnOut.attempts = 1
             /\ fnOut.pc \in {"non-2xx", "returned"}
             /\ fnOut.pc = "returned" => fnOut.log = <<"ERROR " \o fnArgs.adapter>>

\* witness for C36: the WhatsApp adapter returned after one POST that was
\* answered with a status outside 2xx
C36_Witness ==
    /\ fnArgs.op = "forward" /\ fnArgs.adapter = "WhatsApp"
    /\ fnArgs.outcomes[1] = "non-2xx"
    /\ fnOut.pc = "returned"
    /\ fnOut.attempts = 1
    /\ fnOut.log = <<"ERROR WhatsApp">>

\* C37: a POST /test-response that fails (not configured, timeout, request
\* failure, invalid JSON, empty reply, or no prompt in the body) leaves the
\* history and the stored prompt as they were; one that succeeds leaves the
\* prompt as it was and appends exactly one entry, the reply it answers with,
\* to the history (which drops its oldest entry when it held 10).
C37_TestResponseFrame ==
    [][req'.route = "POST /test-response" =>
          /\ prompt' = prompt
          /\ http' # 200 => responses' = responses
          /\ http' = 200 =>
                /\ req'.data # TAbsent /\ req'.outcome = "ok"
                /\ responses' = (IF Len(responses) < 10 THEN responses
                                 ELSE Tail(responses)) \o <<body'[1].response>>
          /\ (req'.data = TAbsent \/ req'.outcome # "ok") => http' # 200
      ]_vars

\* witness for C37: with a prompt stored and 10 responses in the history, a
\* /test-response whose upstream call returned an empty reply was answered 502
C37_Witness ==
    /\ req.route = "POST /test-response"
    /\ req.outcome = "empty" /\ req.data # TAbsent
    /\ http = 502
    /\ prompt # NoPrompt
    /\ Len(responses) = 10
    /\ \E i \in DOMAIN responses : responses[i] # OldResponse

\* run_both is over, by return or by an exception
RunBothOver == fnOut.pc \in {"returned", "raised"}

\* the group of child c was stopped as terminate_group stops it: SIGTERM was
\* sent unless the group had gone, and SIGKILL unless the child had exited
Terminated(c) ==
    /\ ~Alive(c)
    /\ <<c, "SIGTERM">> \in fnOut.sent \/ fnOut.child[c] = "reaped"
    /\ <<c, "SIGKILL">> \in fnOut.sent <=> fnOut.child[c] = "killed"

\* C38: once a child has exited or the supervisor was interrupted, run_both is
\* over only after both process groups were sent SIGTERM, and SIGKILL when the
\* child outlived the grace wait; no spawned child is running when it is over.
C38_ChildrenStopped ==
    RunBothOver =>
        \A c \in Range(Children) : fnOut.child[c] # "none" => Terminated(c)

\* the same for the runs that leave run_both through the finally block
C38_StoppedOnReturn ==
    fnOut.pc = "returned" =>
        \A c \in Range(Children) : Terminated(c)

\* a run that returned after SIGKILL to one child
C38_ReturnedAfterKill ==
    /\ fnOut.pc = "returned"
    /\ \E c \in Range(Children) : fnOut.child[c] = "killed"

====
